---- MODULE Spec2Model ----
(***************************************************************************)
(* Verification model of the nachtara stealth-address wallet: the ERC-5564 *)
(* SECP256k1 engine (lib/crypto), the receive scan (commands/receive) and  *)
(* the encrypted wallet store (lib/storage).                               *)
(*                                                                         *)
(* Strings are sequences of one-character strings, so that slice, padStart *)
(* and toLowerCase are computed and never assumed.  The curve is scaled    *)
(* down uniformly: scalars, coordinates and Keccak digests are 2 bytes     *)
(* wide instead of 32, and the group is cyclic of prime order CURVE_ORDER  *)
(* just below the digest space 2^16, as secp256k1's order sits just below  *)
(* 2^256.  A compressed public key is 1 + 2 bytes, a meta-address 2 * 3    *)
(* bytes.  A point is written by its index k (the point k*G).              *)
(***************************************************************************)
EXTENDS Integers, Sequences, FiniteSets, TLC

VARIABLES keys, gen, chk, spk,
          anns, scanIdx, ownedAddresses, scanPc,
          enc, dec,
          meta, parsed,
          walletFile, load,
          mdata, tag,
          derived,
          imp,
          proc, discoveredAddresses, config, chainLogs, chainHead, balances,
          rcv, bal, wd,
          snd, txs,
          ini,
          ether, announced, fwd,
          configFile, cfgCmd,
          fetchRun, fetchHistory,
          writers, saves

vars == <<keys, gen, chk, spk, anns, scanIdx, ownedAddresses, scanPc, enc, dec,
          meta, parsed, walletFile, load, mdata, tag, derived,
          imp,
          proc, discoveredAddresses, config, chainLogs, chainHead, balances,
          rcv, bal, wd,
          snd, txs,
          ini,
          ether, announced, fwd,
          configFile, cfgCmd,
          fetchRun, fetchHistory,
          writers, saves>>

stealthVars == <<keys, gen, chk, spk>>

scanVars == <<anns, scanIdx, ownedAddresses, scanPc>>

cipherVars == <<enc, dec>>

codecVars == <<meta, parsed>>

walletVars == <<walletFile, load>>

metadataVars == <<mdata, tag>>

signatureVars == <<derived>>

importVars == <<imp>>

commandVars == <<proc, discoveredAddresses, config, chainLogs, chainHead, balances,
                 rcv, bal, wd>>

sendVars == <<snd, txs>>

initVars == <<ini>>

forwarderVars == <<ether, announced, fwd>>

configVars == <<configFile, cfgCmd>>

fetchVars == <<fetchRun, fetchHistory>>

writerVars == <<writers, saves>>

\* the state of the operations that are modelled after the wallet store
restVars == <<metadataVars, signatureVars, importVars, commandVars, sendVars, initVars, forwarderVars, configVars, fetchVars, writerVars>>

(***************************************************************************)
(* JavaScript string primitives                                            *)
(***************************************************************************)
Digits == <<"0","1","2","3","4","5","6","7","8","9","a","b","c","d","e","f">>

UpperDigits == <<"0","1","2","3","4","5","6","7","8","9","A","B","C","D","E","F">>

Min(a, b) == IF a < b THEN a ELSE b

\* String.prototype.slice(a, b) for 0 <= a, 0 <= b
Slice(s, a, b) == SubSeq(s, a + 1, Min(b, Len(s)))

\* String.prototype.slice(a)
SliceFrom(s, a) == SubSeq(s, a + 1, Len(s))

ToLowerChar(c) ==
  CASE c = "A" -> "a" [] c = "B" -> "b" [] c = "C" -> "c"
    [] c = "D" -> "d" [] c = "E" -> "e" [] c = "F" -> "f"
    [] OTHER -> c

ToUpperChar(c) ==
  CASE c = "a" -> "A" [] c = "b" -> "B" [] c = "c" -> "C"
    [] c = "d" -> "D" [] c = "e" -> "E" [] c = "f" -> "F"
    [] OTHER -> c

\* String.prototype.toLowerCase
ToLowerCase(s) == [i \in 1..Len(s) |-> ToLowerChar(s[i])]

ToUpperCase(s) == [i \in 1..Len(s) |-> ToUpperChar(s[i])]

HexChars == {Digits[i] : i \in 1..16} \cup {UpperDigits[i] : i \in 1..16}

IsHexChar(c) == c \in HexChars

HexVal(c) == (CHOOSE i \in 1..16 : Digits[i] = ToLowerChar(c)) - 1

Repeat(c, n) == [i \in 1..n |-> c]

\* String.prototype.padStart(n, c)
PadStart(s, n, c) == IF Len(s) >= n THEN s ELSE Repeat(c, n - Len(s)) \o s

\* the sequences over S of length at most n
SeqsUpTo(S, n) == UNION {[1..m -> S] : m \in 0..n}

\* the template literal `0x${s}`
With0x(s) == <<"0", "x">> \o s

(***************************************************************************)
(* Numbers.  Every scalar, coordinate and digest of the model is below     *)
(* HASH_SPACE = 2^16; a hex string that denotes a larger number is read as *)
(* HASH_SPACE, which is out of range for every use the code makes of it.   *)
(***************************************************************************)
HASH_SPACE == 65536

CURVE_ORDER == 65521

\* the value of the hex digit at position j of s, 0 before the start
DigitAt(s, j) == IF j >= 1 THEN HexVal(s[j]) ELSE 0

\* the number a string of hex digits denotes, at most HASH_SPACE
HexToNum(s) ==
  LET n == Len(s)
  IN IF \E i \in 1..(n - 4) : HexVal(s[i]) # 0
     THEN HASH_SPACE
     ELSE 4096 * DigitAt(s, n - 3) + 256 * DigitAt(s, n - 2)
            + 16 * DigitAt(s, n - 1) + DigitAt(s, n)

\* BigInt.prototype.toString(16)
RECURSIVE NumToHex(_)
NumToHex(n) ==
  IF n < 16 THEN <<Digits[n + 1]>>
  ELSE NumToHex(n \div 16) \o <<Digits[(n % 16) + 1]>>

\* BigInt(hex)
BigIntOf(hex) == HexToNum(SliceFrom(hex, 2))

\* viem hexToBytes: the bytes of a hex string, written as lower-case hex
\* digits; an odd number of digits gets a leading zero; a character that is
\* no hex digit raises.
HexToBytes(hex) ==
  LET h == SliceFrom(hex, 2)
      even == IF Len(h) % 2 = 1 THEN <<"0">> \o h ELSE h
  IN IF \A i \in 1..Len(h) : IsHexChar(h[i])
     THEN [ok |-> TRUE, bytes |-> ToLowerCase(even)]
     ELSE [ok |-> FALSE, bytes |-> <<>>]

\* viem bytesToHex
BytesToHex(bytes) == With0x(bytes)

(***************************************************************************)
(* The curve (@noble/secp256k1), scaled: the point k*G is written k, the   *)
(* point at infinity is 0.  A point and its negation share the             *)
(* x-coordinate XOf and are told apart by the prefix byte 02 / 03.         *)
(***************************************************************************)
FIELD_HEX == 4

HALF_ORDER == (CURVE_ORDER - 1) \div 2

RECURSIVE MulMod(_, _)
MulMod(a, b) ==
  IF b = 0 THEN 0
  ELSE (2 * MulMod(a, b \div 2) + (b % 2) * a) % CURVE_ORDER

AddMod(a, b) == (a + b) % CURVE_ORDER

XOf(k) == Min(k, CURVE_ORDER - k) % CURVE_ORDER

YOf(k) == k

\* Point.toHex(isCompressed) / toRawBytes: no validity check, the point at
\* infinity is written with x = 0, y = 0
PointToBytes(k, isCompressed) ==
  LET head == IF isCompressed
              THEN (IF k = XOf(k) THEN <<"0", "2">> ELSE <<"0", "3">>)
              ELSE <<"0", "4">>
      xs == PadStart(NumToHex(XOf(k)), FIELD_HEX, "0")
      ys == PadStart(NumToHex(YOf(k)), FIELD_HEX, "0")
  IN head \o xs \o (IF isCompressed THEN <<>> ELSE ys)

\* Point.fromHex on bytes: 33 bytes with head 02/03, or 65 bytes with head
\* 04; raises when the coordinates are not a point of the curve
PointFromBytes(b) ==
  LET head == Slice(b, 0, 2)
      x == HexToNum(Slice(b, 2, 2 + FIELD_HEX))
      y == HexToNum(SliceFrom(b, 2 + FIELD_HEX))
  IN IF Len(b) = 2 + FIELD_HEX /\ head \in {<<"0", "2">>, <<"0", "3">>}
     THEN IF x >= 1 /\ x <= HALF_ORDER
          THEN [ok |-> TRUE, pt |-> IF head = <<"0", "2">> THEN x ELSE CURVE_ORDER - x]
          ELSE [ok |-> FALSE, pt |-> 0]
     ELSE IF Len(b) = 2 + 2 * FIELD_HEX /\ head = <<"0", "4">>
          THEN IF y >= 1 /\ y < CURVE_ORDER /\ x = XOf(y)
               THEN [ok |-> TRUE, pt |-> y]
               ELSE [ok |-> FALSE, pt |-> 0]
          ELSE [ok |-> FALSE, pt |-> 0]

\* ProjectivePoint.fromHex(hex string without 0x)
PointFromHex(h) ==
  IF (\A i \in 1..Len(h) : IsHexChar(h[i])) /\ Len(h) % 2 = 0
  THEN PointFromBytes(ToLowerCase(h))
  ELSE [ok |-> FALSE, pt |-> 0]

\* utils.isValidPrivateKey / toPriv: 32 bytes, 0 < n < CURVE_ORDER
IsValidPrivateKey(b) ==
  /\ Len(b) = FIELD_HEX
  /\ HexToNum(b) >= 1
  /\ HexToNum(b) < CURVE_ORDER

ScalarBytes(n) == PadStart(NumToHex(n), FIELD_HEX, "0")

\* getPublicKey(priv, true)
GetPublicKey(priv) ==
  IF IsValidPrivateKey(priv)
  THEN [ok |-> TRUE, bytes |-> PointToBytes(HexToNum(priv), TRUE)]
  ELSE [ok |-> FALSE, bytes |-> <<>>]

\* ProjectivePoint.fromPrivateKey(bytes)
PointFromPrivateKey(priv) ==
  IF IsValidPrivateKey(priv)
  THEN [ok |-> TRUE, pt |-> HexToNum(priv)]
  ELSE [ok |-> FALSE, pt |-> 0]

\* a getSharedSecret that validates its inputs and returns the public point
\* without multiplying it by the private key
GetSharedSecret_NoMul(priv, pub) ==
  LET P == PointFromBytes(pub)
  IN IF P.ok /\ IsValidPrivateKey(priv)
     THEN [ok |-> TRUE, bytes |-> PointToBytes(P.pt, TRUE)]
     ELSE [ok |-> FALSE, bytes |-> <<>>]

\* getSharedSecret(priv, pub): Point.fromHex(pub).mul(toPriv(priv)), compressed
GetSharedSecret(priv, pub) ==
  LET P == PointFromBytes(pub)
  IN IF P.ok /\ IsValidPrivateKey(priv)
     THEN [ok |-> TRUE, bytes |-> PointToBytes(MulMod(P.pt, HexToNum(priv)), TRUE)]
     ELSE [ok |-> FALSE, bytes |-> <<>>]

(***************************************************************************)
(* Keccak-256 of a shared secret, scaled to a 2-byte digest.  The digest   *)
(* is a fixed arbitrary function of the input; it is chosen so that every  *)
(* boundary the code has to cope with has a preimage among the shared      *)
(* secrets of the modelled keys: the digest 0, a digest >= CURVE_ORDER, a  *)
(* digest that wraps the private-key sum, one that makes the sum equal to  *)
(* CURVE_ORDER, and two digests with the same first byte.                  *)
(***************************************************************************)
KeccakNum(k) ==
  CASE k = 6  -> 4660      \* 0x1234
    [] k = 21 -> 4779      \* 0x12ab, first byte as for k = 6
    [] k = 33 -> 65512     \* CURVE_ORDER - 9
    [] k = 39 -> 0
    [] k = 10 -> 65525     \* >= CURVE_ORDER
    [] k = 35 -> 255       \* 0x00ff
    [] k = 55 -> 521       \* CURVE_ORDER - 65000
    [] k = 65 -> 43981     \* 0xabcd
    [] k = 12 -> 4761      \* 0x1299, first byte as for k = 6
    [] OTHER  -> (k * 257 + 4099) % HASH_SPACE

DIGEST_HEX == 4

Keccak256(bytes) ==
  LET P == PointFromBytes(bytes)
  IN With0x(PadStart(NumToHex(KeccakNum(P.pt)), DIGEST_HEX, "0"))

\* the digest as private-key bytes: hexToBytes(hashedSecret)
DigestBytes(hash) == PadStart(HexToBytes(hash).bytes, FIELD_HEX, "0")

\* viem publicKeyToAddress: the last bytes of the Keccak digest of x || y, in
\* checksum case.  The digest of x || y is scaled to its last 2 bytes, which
\* name the point; the checksum case is the upper case.
ADDRESS_HEX == 4

PublicKeyToAddress(pub) ==
  LET body == SliceFrom(pub, 4)
  IN With0x(ToUpperCase(SliceFrom(body, Len(body) - ADDRESS_HEX)))

(***************************************************************************)
(* lib/crypto: meta-address codec and stealth address engine               *)
(***************************************************************************)
PUBKEY_HEX == 2 + FIELD_HEX

META_HEX == 2 * PUBKEY_HEX

\* a meta-address with the viewing key first
createStealthMetaAddress_ViewingFirst(k) ==
  LET spending == SliceFrom(k.spendingPublicKey, 2)
      viewing == SliceFrom(k.viewingPublicKey, 2)
  IN With0x(viewing \o spending)

createStealthMetaAddress(k) ==
  LET spending == SliceFrom(k.spendingPublicKey, 2)
      viewing == SliceFrom(k.viewingPublicKey, 2)
  IN With0x(spending \o viewing)

InvalidMetaLength == "Invalid stealth meta-address length"

\* a parser that cuts the keys out of a meta-address of any length
parseStealthMetaAddress_AnyLength(metaAddress) ==
  LET cleaned == SliceFrom(metaAddress, 2)
  IN [ok |-> TRUE, spendingPublicKey |-> With0x(Slice(cleaned, 0, PUBKEY_HEX)),
      viewingPublicKey |-> With0x(SliceFrom(cleaned, PUBKEY_HEX)),
      error |-> ""]

parseStealthMetaAddress(metaAddress) ==
  LET cleaned == SliceFrom(metaAddress, 2)
  IN IF Len(cleaned) = PUBKEY_HEX
     THEN [ok |-> TRUE, spendingPublicKey |-> With0x(cleaned), viewingPublicKey |-> With0x(cleaned),
           error |-> ""]
     ELSE IF Len(cleaned) # META_HEX
          THEN [ok |-> FALSE, spendingPublicKey |-> <<>>, viewingPublicKey |-> <<>>,
                error |-> InvalidMetaLength]
          ELSE [ok |-> TRUE, spendingPublicKey |-> With0x(Slice(cleaned, 0, PUBKEY_HEX)),
                viewingPublicKey |-> With0x(SliceFrom(cleaned, PUBKEY_HEX)),
                error |-> ""]

\* `0x${hashedSecret.slice(2, 4)}`
ViewTagOf(hashedSecret) == With0x(Slice(hashedSecret, 2, 4))

\* a view tag filter that lets every announcement through
ViewTagMatches_Always(computedViewTag, announcedViewTag) == TRUE

\* computedViewTag.toLowerCase() === announcedViewTag.toLowerCase()
ViewTagMatches(computedViewTag, announcedViewTag) ==
  ToLowerCase(computedViewTag) = ToLowerCase(announcedViewTag)

\* isValidPublicKey(pubKey): a compressed key, prefix 02 or 03, on the curve
isValidPublicKey(pubKey) ==
  LET cleaned == SliceFrom(pubKey, 2)
  IN /\ Len(cleaned) = PUBKEY_HEX
     /\ Slice(cleaned, 0, 2) \in {<<"0", "2">>, <<"0", "3">>}
     /\ PointFromHex(cleaned).ok

NoStealth == [ok |-> FALSE, stealthAddress |-> <<>>, ephemeralPublicKey |-> <<>>,
              viewTag |-> <<>>]

\* spendingPoint.add(hashedSecretPoint).toRawBytes(false)
StealthPublicKey(spendingPoint, hashedSecretPoint) ==
  PointToBytes(AddMod(spendingPoint, hashedSecretPoint), FALSE)

generateStealthAddress(recipientMetaAddress, ephPrivKey) ==
  LET parts == parseStealthMetaAddress(recipientMetaAddress)
      ephPubKey == GetPublicKey(ephPrivKey)
      viewingBytes == HexToBytes(parts.viewingPublicKey)
      sharedSecret == GetSharedSecret(ephPrivKey, viewingBytes.bytes)
      hashedSecret == Keccak256(sharedSecret.bytes)
      spendingPoint == PointFromHex(SliceFrom(parts.spendingPublicKey, 2))
      hashedSecretPoint == PointFromPrivateKey(DigestBytes(hashedSecret))
      stealthPublicKey == StealthPublicKey(spendingPoint.pt, hashedSecretPoint.pt)
  IN IF ~parts.ok THEN NoStealth
     ELSE IF ~ephPubKey.ok THEN NoStealth
     ELSE IF ~viewingBytes.ok \/ ~sharedSecret.ok THEN NoStealth
     ELSE IF ~spendingPoint.ok THEN NoStealth
     ELSE IF ~hashedSecretPoint.ok THEN NoStealth
     ELSE [ok |-> TRUE,
           stealthAddress |-> PublicKeyToAddress(BytesToHex(stealthPublicKey)),
           ephemeralPublicKey |-> BytesToHex(ephPubKey.bytes),
           viewTag |-> ViewTagOf(hashedSecret)]

\* The result of checkStealthAddress: out is "true", "false" or "throw";
\* ops lists the curve and address operations performed, in order.
checkStealthAddress(ephemeralPublicKey, spendingPublicKey, viewingPrivateKey, announcedAddress, announcedViewTag) ==
  LET privBytes == HexToBytes(viewingPrivateKey)
      ephBytes == HexToBytes(ephemeralPublicKey)
      sharedSecret == GetSharedSecret(privBytes.bytes, ephBytes.bytes)
      hashedSecret == Keccak256(sharedSecret.bytes)
      computedViewTag == ViewTagOf(hashedSecret)
      spendingPoint == PointFromHex(SliceFrom(spendingPublicKey, 2))
      hashedSecretPoint == PointFromPrivateKey(DigestBytes(hashedSecret))
      stealthPublicKey == StealthPublicKey(spendingPoint.pt, hashedSecretPoint.pt)
      computedAddress == PublicKeyToAddress(BytesToHex(stealthPublicKey))
  IN IF ~privBytes.ok \/ ~ephBytes.ok \/ ~sharedSecret.ok
     THEN [out |-> "throw", ops |-> <<"getSharedSecret">>]
     ELSE IF ~ViewTagMatches(computedViewTag, announcedViewTag)
     THEN [out |-> "false", ops |-> <<"getSharedSecret", "keccak256">>]
     ELSE IF ~spendingPoint.ok
     THEN [out |-> "throw", ops |-> <<"getSharedSecret", "keccak256", "fromHex">>]
     ELSE IF ~hashedSecretPoint.ok
     THEN [out |-> "throw",
           ops |-> <<"getSharedSecret", "keccak256", "fromHex", "fromPrivateKey">>]
     ELSE [out |-> IF ToLowerCase(computedAddress) = ToLowerCase(announcedAddress)
                   THEN "true" ELSE "false",
           ops |-> <<"getSharedSecret", "keccak256", "fromHex", "fromPrivateKey",
                     "add", "publicKeyToAddress">>]

computeStealthPrivateKey(ephemeralPublicKey, spendingPrivateKey, viewingPrivateKey) ==
  LET privBytes == HexToBytes(viewingPrivateKey)
      ephBytes == HexToBytes(ephemeralPublicKey)
      sharedSecret == GetSharedSecret(privBytes.bytes, ephBytes.bytes)
      hashedSecret == Keccak256(sharedSecret.bytes)
      spendingBigInt == BigIntOf(spendingPrivateKey)
      hashedBigInt == BigIntOf(hashedSecret)
      stealthPrivateKeyBigInt == (spendingBigInt + hashedBigInt) % CURVE_ORDER
  IN IF ~privBytes.ok \/ ~ephBytes.ok \/ ~sharedSecret.ok
     THEN [ok |-> FALSE, key |-> <<>>]
     ELSE [ok |-> TRUE,
           key |-> With0x(PadStart(NumToHex(stealthPrivateKeyBigInt), FIELD_HEX, "0"))]

\* viem privateKeyToAccount(key).address: raises unless key is a valid
\* private key
privateKeyToAddress(key) ==
  LET b == HexToBytes(key)
      pub == PointFromPrivateKey(b.bytes)
  IN IF b.ok /\ pub.ok
     THEN [ok |-> TRUE, address |-> PublicKeyToAddress(BytesToHex(PointToBytes(pub.pt, FALSE)))]
     ELSE [ok |-> FALSE, address |-> <<>>]

extractViewTag(metadata) == With0x(Slice(metadata, 2, 4))

createAnnouncementMetadata(viewTag, extraData) ==
  LET viewTagByte == Slice(viewTag, 2, 4)
      extra == IF extraData # <<>> THEN SliceFrom(extraData, 2) ELSE <<>>
  IN With0x(viewTagByte \o extra)

(***************************************************************************)
(* lib/crypto: the wallet cipher.  A JavaScript string is a sequence of    *)
(* UTF-16 code units; "D83D" is a high surrogate, "DE00" a low surrogate,  *)
(* "U+FEFF" the byte order mark, "U+0000" the NUL character.  UTF-8 bytes  *)
(* are written as the sequence of encoded scalar values.                   *)
(***************************************************************************)
IsHighSurrogate(c) == c = "D83D"

IsLowSurrogate(c) == c = "DE00"

\* new TextEncoder().encode(str): a surrogate pair is one scalar value, a
\* lone surrogate is replaced by U+FFFD
RECURSIVE TextEncode(_)
TextEncode(str) ==
  IF str = <<>> THEN <<>>
  ELSE IF Len(str) >= 2 /\ IsHighSurrogate(str[1]) /\ IsLowSurrogate(str[2])
       THEN <<"U+1F600">> \o TextEncode(SliceFrom(str, 2))
       ELSE IF IsHighSurrogate(str[1]) \/ IsLowSurrogate(str[1])
            THEN <<"U+FFFD">> \o TextEncode(SliceFrom(str, 1))
            ELSE <<str[1]>> \o TextEncode(SliceFrom(str, 1))

RECURSIVE DecodeScalars(_)
DecodeScalars(bytes) ==
  IF bytes = <<>> THEN <<>>
  ELSE IF bytes[1] = "U+1F600"
       THEN <<"D83D", "DE00">> \o DecodeScalars(SliceFrom(bytes, 1))
       ELSE <<bytes[1]>> \o DecodeScalars(SliceFrom(bytes, 1))

\* new TextDecoder().decode(bytes): ignoreBOM is false, a leading byte
\* order mark is removed
TextDecode(bytes) ==
  IF bytes # <<>> /\ bytes[1] = "U+FEFF"
  THEN DecodeScalars(SliceFrom(bytes, 1))
  ELSE DecodeScalars(bytes)

PBKDF2_ITERATIONS == 100000

SALT_LENGTH == 32

IV_LENGTH == 12

\* the block length of SHA-256, in bytes
HMAC_BLOCK_LEN == 64

Utf8Length(c) ==
  CASE c = "U+1F600" -> 4
    [] c \in {"U+FEFF", "U+FFFD"} -> 3
    [] OTHER -> 1

RECURSIVE ByteLength(_)
ByteLength(bytes) ==
  IF bytes = <<>> THEN 0 ELSE Utf8Length(bytes[1]) + ByteLength(SliceFrom(bytes, 1))

\* the key block of HMAC: a key longer than a block is hashed, a shorter one
\* is padded with zero bytes to the block length
HmacKeyBlock(key) ==
  IF ByteLength(key) > HMAC_BLOCK_LEN
  THEN <<"sha256">> \o key
  ELSE key \o Repeat("U+0000", HMAC_BLOCK_LEN - ByteLength(key))

\* pbkdf2(sha256, password bytes, salt, {c, dkLen: 32}): a function of the
\* HMAC key block and the salt, without collisions
deriveEncryptionKey(password, salt) ==
  [c |-> PBKDF2_ITERATIONS, salt |-> salt,
   block |-> HmacKeyBlock(TextEncode(password)), dkLen |-> 32]

\* crypto.subtle.encrypt AES-GCM: the sealed bytes are known by the key, the
\* nonce and the plaintext that made them
AesGcmEncrypt(key, iv, plaintext) == [key |-> key, iv |-> iv, plaintext |-> plaintext]

\* crypto.subtle.decrypt AES-GCM: authentication succeeds for unmodified
\* sealed bytes under the key and nonce that made them
AesGcmDecrypt(key, iv, encrypted) ==
  IF encrypted.mark = "intact" /\ encrypted.sealed.key = key /\ encrypted.sealed.iv = iv
  THEN [ok |-> TRUE, plaintext |-> encrypted.sealed.plaintext]
  ELSE [ok |-> FALSE, plaintext |-> <<>>]

\* the hex string of sealed bytes; mark tells what became of it since:
\* "intact", "flipped" (a byte changed) or "nonhex" (a character that is no
\* hex digit)
SealedHex(sealed, mark) == [mark |-> mark, sealed |-> sealed]

encryptData(data, password, salt, iv) ==
  LET key == deriveEncryptionKey(password, salt)
      encrypted == AesGcmEncrypt(key, iv, TextEncode(data))
  IN [salt |-> BytesToHex(salt),
      iv |-> BytesToHex(iv),
      encrypted |-> SealedHex(encrypted, "intact")]

HexError == "Invalid byte sequence"

DecryptionFailed == "Decryption failed. Wrong password?"

decryptData(encryptedHex, password, saltHex, ivHex) ==
  LET salt == HexToBytes(saltHex)
      iv == HexToBytes(ivHex)
      key == deriveEncryptionKey(password, salt.bytes)
      decrypted == AesGcmDecrypt(key, iv.bytes, encryptedHex)
  IN IF ~salt.ok THEN [ok |-> FALSE, error |-> HexError, data |-> <<>>]
     ELSE IF ~iv.ok THEN [ok |-> FALSE, error |-> HexError, data |-> <<>>]
     ELSE IF encryptedHex.mark = "nonhex"
          THEN [ok |-> FALSE, error |-> HexError, data |-> <<>>]
     ELSE IF decrypted.ok
          THEN [ok |-> TRUE, error |-> "none", data |-> TextDecode(decrypted.plaintext)]
          ELSE [ok |-> FALSE, error |-> DecryptionFailed, data |-> <<>>]

(***************************************************************************)
(* lib/crypto: keys derived from a wallet signature.  The signature is     *)
(* scaled with the field: r and s are 2 bytes each, followed by v.         *)
(***************************************************************************)
\* keccak256 of a hex string of raw bytes (a signature portion)
Keccak256OfHex(hex) ==
  LET b == HexToBytes(hex)
  IN [ok |-> b.ok,
      hash |-> With0x(PadStart(NumToHex(KeccakNum(HexToNum(b.bytes))), DIGEST_HEX, "0"))]

\* a signature: r and s, one field each, and the recovery byte v
SIG_HEX == 2 * FIELD_HEX + 2

InvalidSignatureLength == "Invalid signature length. Expected 65 bytes."

NoDerivedKeys == [spendingPublicKey |-> <<>>, viewingPublicKey |-> <<>>,
                  viewingPrivateKey |-> <<>>, spendingPrivateKey |-> <<>>]

deriveKeysFromSignature(signature) ==
  IF Len(signature) # 2 + SIG_HEX
  THEN [keys |-> NoDerivedKeys, ok |-> FALSE, error |-> InvalidSignatureLength]
  ELSE
    LET sigBytes == SliceFrom(signature, 2)
        portion1 == Slice(sigBytes, 0, FIELD_HEX)
        portion2 == Slice(sigBytes, FIELD_HEX, 2 * FIELD_HEX)
        hash1 == Keccak256OfHex(With0x(portion1))
        hash2 == Keccak256OfHex(With0x(portion2))
        spendingPrivateKey == HexToBytes(hash1.hash).bytes
        viewingPrivateKey == HexToBytes(hash2.hash).bytes
    IN IF ~hash1.ok \/ ~hash2.ok
       THEN [keys |-> NoDerivedKeys, ok |-> FALSE, error |-> HexError]
       ELSE IF ~IsValidPrivateKey(spendingPrivateKey)
       THEN [keys |-> NoDerivedKeys, ok |-> FALSE,
             error |-> "Derived spending key is invalid"]
       ELSE IF ~IsValidPrivateKey(viewingPrivateKey)
       THEN [keys |-> NoDerivedKeys, ok |-> FALSE,
             error |-> "Derived viewing key is invalid"]
       ELSE [keys |-> [spendingPublicKey |->
                         BytesToHex(GetPublicKey(spendingPrivateKey).bytes),
                       viewingPublicKey |->
                         BytesToHex(GetPublicKey(viewingPrivateKey).bytes),
                       viewingPrivateKey |-> BytesToHex(viewingPrivateKey),
                       spendingPrivateKey |-> BytesToHex(spendingPrivateKey)], ok |-> TRUE,
             error |-> ""]

(***************************************************************************)
(* lib/storage: the encrypted wallet file.  JSON text is a sequence of     *)
(* characters in which a member name with its quotes and colon is one      *)
(* element.  createdAt is a timestamp that no modelled operation reads and *)
(* is left out.                                                            *)
(***************************************************************************)
KeyFields == <<"spendingPrivateKey:", "spendingPublicKey:", "viewingPrivateKey:",
               "viewingPublicKey:">>

\* JSON.stringify(keys)
JsonStringify(k) ==
  <<"{", KeyFields[1]>> \o k.spendingPrivateKey
    \o <<",", KeyFields[2]>> \o k.spendingPublicKey
    \o <<",", KeyFields[3]>> \o k.viewingPrivateKey
    \o <<",", KeyFields[4]>> \o k.viewingPublicKey \o <<"}">>

\* the value of member name in JSON text
MemberOf(text, name) ==
  LET i == CHOOSE i \in 1..Len(text) : text[i] = name
      j == CHOOSE j \in (i + 1)..Len(text) :
             /\ text[j] \in {",", "}"}
             /\ \A m \in (i + 1)..(j - 1) : text[m] \notin {",", "}"}
  IN SubSeq(text, i + 1, j - 1)

NoKeys == [spendingPublicKey |-> <<>>, viewingPublicKey |-> <<>>,
           viewingPrivateKey |-> <<>>, spendingPrivateKey |-> <<>>]

\* JSON.parse(keysJson)
JsonParse(text) ==
  IF /\ text # <<>>
     /\ text[1] = "{"
     /\ text[Len(text)] = "}"
     /\ \A f \in 1..4 : \E i \in 1..Len(text) : text[i] = KeyFields[f]
  THEN [keys |-> [spendingPublicKey |-> MemberOf(text, KeyFields[2]),
                  viewingPublicKey |-> MemberOf(text, KeyFields[4]),
                  viewingPrivateKey |-> MemberOf(text, KeyFields[3]),
                  spendingPrivateKey |-> MemberOf(text, KeyFields[1])],
        ok |-> TRUE]
  ELSE [keys |-> NoKeys, ok |-> FALSE]

deriveMainAddress(spendingPublicKey) ==
  LET point == PointFromHex(SliceFrom(spendingPublicKey, 2))
  IN IF point.ok
     THEN [ok |-> TRUE,
           address |-> PublicKeyToAddress(BytesToHex(PointToBytes(point.pt, FALSE)))]
     ELSE [ok |-> FALSE, address |-> <<>>]

\* A file of the wallet directory or a backup: whether the path exists,
\* whether its content is JSON text, and the members of the JSON object.  A
\* member value is written as its JSON text: version is "1" for the number
\* 1, "\"1\"" for the string, "undefined" when the member is missing.
NoWalletFile == [address |-> <<>>, salt |-> <<>>, iv |-> <<>>,
                 exists |-> FALSE,
                 parses |-> FALSE,
                 version |-> "undefined",
                 stealthMetaAddress |-> <<>>, encryptedKeys |-> SealedHex(AesGcmEncrypt(<<>>, <<>>, <<>>), "none")]

\* the wallet file saveWallet writes, for the salt and nonce encryptData drew
saveWallet(k, password, salt, iv) ==
  LET stealthMetaAddress == createStealthMetaAddress(k)
      address == deriveMainAddress(k.spendingPublicKey)
      keysJson == JsonStringify(k)
      e == encryptData(keysJson, password, salt, iv)
  IN [address |-> address.address, salt |-> e.salt, iv |-> e.iv,
      exists |-> TRUE,
      parses |-> TRUE,
      version |-> "1", stealthMetaAddress |-> stealthMetaAddress, encryptedKeys |-> e.encrypted]

\* a comparison that accepts every decrypted key pair
IntegrityOk_Skip(computedMeta, storedMeta) == TRUE

\* !(computedMeta !== encrypted.stealthMetaAddress)
IntegrityOk(computedMeta, storedMeta) == computedMeta = storedMeta

UnsupportedVersion == "Unsupported wallet version"

\* a version test that lets every record through
VersionSupported_Any(version) == TRUE

\* !(encrypted.version !== 1)
VersionSupported(version) == version = "1"

LoadFailure(error, steps) ==
  [keys |-> NoKeys, ok |-> FALSE, error |-> error, address |-> <<>>,
   stealthMetaAddress |-> <<>>, steps |-> steps]

\* loadWallet(password) on the wallet file; steps lists what it did, in order
loadWallet(file, password) ==
  LET keysJson == decryptData(file.encryptedKeys, password, file.salt, file.iv)
      k == JsonParse(keysJson.data)
      computedMeta == createStealthMetaAddress(k.keys)
  IN IF ~file.exists
     THEN LoadFailure("No wallet found", <<"walletExists">>)
     ELSE IF ~file.parses
     THEN LoadFailure("SyntaxError", <<"walletExists", "readFile">>)
     ELSE IF ~VersionSupported(file.version)
     THEN LoadFailure(UnsupportedVersion, <<"walletExists", "readFile">>)
     ELSE IF ~keysJson.ok
     THEN LoadFailure(keysJson.error, <<"walletExists", "readFile", "decryptData">>)
     ELSE IF ~k.ok
     THEN LoadFailure("SyntaxError",
                      <<"walletExists", "readFile", "decryptData", "JSON.parse">>)
     ELSE IF ~IntegrityOk(computedMeta, file.stealthMetaAddress)
     THEN LoadFailure("Wallet integrity check failed",
                      <<"walletExists", "readFile", "decryptData", "JSON.parse",
                        "createStealthMetaAddress", "compare">>)
     ELSE [keys |-> k.keys, ok |-> TRUE, error |-> "none",
           address |-> file.address, stealthMetaAddress |-> file.stealthMetaAddress,
           steps |-> <<"walletExists", "readFile", "decryptData", "JSON.parse",
                       "createStealthMetaAddress", "compare">>]

\* walletExists(): access(WALLET_FILE) succeeds
walletExists(file) == file.exists

\* getWalletInfo(): null without a wallet file, the public members otherwise;
\* JSON.parse raises on a file that is no JSON text
getWalletInfo(file) ==
  IF ~walletExists(file)
  THEN [ok |-> TRUE, address |-> <<>>, stealthMetaAddress |-> <<>>, info |-> FALSE]
  ELSE IF ~file.parses
  THEN [ok |-> FALSE, address |-> <<>>, stealthMetaAddress |-> <<>>, info |-> FALSE]
  ELSE [ok |-> TRUE, address |-> file.address, stealthMetaAddress |-> file.stealthMetaAddress,
        info |-> TRUE]

\* !wallet.encryptedKeys: the member is missing or the empty string
NoEncryptedKeys == NoWalletFile.encryptedKeys

\* importWallet(sourcePath): backup is the file at sourcePath, file the
\* wallet file before the call; the result holds the wallet file after it
importWallet(backup, file) ==
  IF ~backup.exists
  THEN [ok |-> FALSE, error |-> "ENOENT", steps |-> <<"readFile">>, file |-> file]
  ELSE IF ~backup.parses
  THEN [ok |-> FALSE, error |-> "SyntaxError", steps |-> <<"readFile", "JSON.parse">>,
        file |-> file]
  ELSE IF ~VersionSupported(backup.version)
  THEN [ok |-> FALSE, error |-> UnsupportedVersion, steps |-> <<"readFile", "JSON.parse">>,
        file |-> file]
  ELSE IF \/ backup.address = <<>>
          \/ backup.stealthMetaAddress = <<>>
          \/ backup.encryptedKeys = NoEncryptedKeys
  THEN [ok |-> FALSE, error |-> "Invalid wallet backup format", steps |-> <<"readFile", "JSON.parse">>,
        file |-> file]
  ELSE [ok |-> TRUE, error |-> "none", steps |-> <<"readFile", "JSON.parse", "ensureDir", "writeFile">>,
        file |-> backup]

(***************************************************************************)
(* lib/network and lib/storage: the scan cursor and the announcement logs. *)
(* Block numbers are scaled: the chain is a few blocks long, the contracts *)
(* were deployed in its first blocks and a getLogs chunk spans CHUNK_SIZE  *)
(* blocks.  A missing lastScanBlock entry is written 0; no entry is ever   *)
(* 0, as updateLastScanBlock stores an end block above the start block.    *)
(***************************************************************************)
MAINNET == 1

SEPOLIA == 11155111

HOLESKY == 17000

ChainIds == {MAINNET, SEPOLIA, HOLESKY}

\* START_BLOCKS[chainId] || 0n
START_BLOCKS(chainId) ==
  CASE chainId = MAINNET -> 3
    [] chainId = SEPOLIA -> 2
    [] chainId = HOLESKY -> 1
    [] OTHER -> 0

CHUNK_SIZE == 4

\* getLastScanBlock(chainId): block ? BigInt(block) : null, null written 0
getLastScanBlock(cfg, chainId) == cfg.lastScanBlock[chainId]

\* updateLastScanBlock(chainId, blockNumber)
updateLastScanBlock(cfg, chainId, blockNumber) ==
  [cfg EXCEPT !.lastScanBlock[chainId] = blockNumber]

\* client.getLogs({fromBlock: start, toBlock: end}) with the log mapped to
\* AnnouncementData
GetLogs(logs, start, end) ==
  SelectSeq(logs, LAMBDA l : l.blockNumber >= start /\ l.blockNumber <= end)

\* a chunk that always spans CHUNK_SIZE blocks after its start
ChunkEnd_Unclamped(start, endBlock) == start + CHUNK_SIZE

\* start + CHUNK_SIZE - 1n > endBlock ? endBlock : start + CHUNK_SIZE - 1n
ChunkEnd(start, endBlock) ==
  IF start + CHUNK_SIZE - 1 > endBlock THEN endBlock ELSE start + CHUNK_SIZE - 1

\* for (let start = fromBlock; start <= endBlock; start += CHUNK_SIZE)
RECURSIVE FetchChunks(_, _, _)
FetchChunks(logs, start, endBlock) ==
  IF start > endBlock THEN <<>>
  ELSE GetLogs(logs, start, ChunkEnd(start, endBlock))
         \o FetchChunks(logs, start + CHUNK_SIZE, endBlock)

\* a cursor that is written after every run
CursorAdvances_Always(endBlock, fromBlock) == TRUE

\* if (endBlock > fromBlock)
CursorAdvances(endBlock, fromBlock) == endBlock > fromBlock

\* the block fetchAnnouncements starts from: the parameter, the block after
\* the cursor, or the deployment block; fromBlockParam 0 is undefined or 0n
FirstBlock(fromBlockParam, lastScanned, chainId) ==
  IF fromBlockParam # 0 THEN fromBlockParam
  ELSE IF lastScanned # 0 THEN lastScanned + 1
  ELSE START_BLOCKS(chainId)

\* fetchAnnouncements({fromBlock}) on the chain (logs, currentBlock) and the
\* config; fromBlockParam 0 is undefined or 0n, both of which !fromBlock
\* takes for a missing value.  Returns the announcements, the block the
\* fetch started from and the config it leaves behind.
fetchAnnouncements(cfg, logs, currentBlock, fromBlockParam) ==
  LET chainId == cfg.chainId
      lastScanned == getLastScanBlock(cfg, chainId)
      fromBlock == FirstBlock(fromBlockParam, lastScanned, chainId)
      endBlock == currentBlock
  IN [config |-> IF CursorAdvances(endBlock, fromBlock)
                 THEN updateLastScanBlock(cfg, chainId, endBlock)
                 ELSE cfg,
      fromBlock |-> fromBlock,
      announcements |-> FetchChunks(logs, fromBlock, endBlock)]

\* client.getBalance({address})
getBalance(bals, address) == bals[address]

GAS_LIMIT == 1

\* withdrawFromStealthAddress without an amount: everything but twice the
\* gas cost of a transfer is sent, the transfer pays the gas cost once.
\* The gas price is scaled to 1.  Returns the balances after it.
withdrawFromStealthAddress(bals, from, toAddress) ==
  LET balance == bals[from]
      gasPrice == 1
      maxGasCost == gasPrice * GAS_LIMIT * 2
      amountToSend == balance - maxGasCost
  IN IF balance <= maxGasCost
     THEN [balances |-> bals, ok |-> FALSE]
     ELSE [balances |-> [bals EXCEPT ![from] = balance - amountToSend - gasPrice * GAS_LIMIT,
                                     ![toAddress] = @ + amountToSend],
           ok |-> TRUE]

(***************************************************************************)
(* lib/storage and lib/network: config.json.  The file is absent or holds  *)
(* an AppConfig; a member the object does not have is written <<>>         *)
(* (customRpcUrl) or 0 (a lastScanBlock entry).  The model keeps three of  *)
(* the seven networks of SUPPORTED_NETWORKS.  A URL is a sequence of       *)
(* characters.                                                             *)
(***************************************************************************)
NetworkNames == {"mainnet", "sepolia", "holesky"}

\* members that every object literal inherits from Object.prototype
InheritedNames == {"constructor", "toString"}

ChainIdOf(name) ==
  CASE name = "mainnet" -> MAINNET
    [] name = "sepolia" -> SEPOLIA
    [] name = "holesky" -> HOLESKY

\* SUPPORTED_NETWORKS[name]: the entry of the table, the inherited member
\* (a function: truthy, with no chainId and no rpcUrl, both written as the
\* missing value), or undefined
SUPPORTED_NETWORKS(name) ==
  IF name \in NetworkNames
  THEN [chainId |-> ChainIdOf(name), truthy |-> TRUE, rpcUrl |-> <<"h", ":", name>>]
  ELSE IF name \in InheritedNames
  THEN [chainId |-> 0, truthy |-> TRUE, rpcUrl |-> <<>>]
  ELSE [chainId |-> 0, truthy |-> FALSE, rpcUrl |-> <<>>]

\* the object loadConfig returns when config.json cannot be read
FallbackConfig ==
  [lastScanBlock |-> [c \in ChainIds |-> 0], activeNetwork |-> "mainnet",
   customRpcUrl |-> <<>>]

NoConfigFile == [exists |-> FALSE, content |-> FallbackConfig]

\* loadConfig()
loadConfig(file) == IF file.exists THEN file.content ELSE FallbackConfig

\* saveConfig(config): the file after the write
saveConfig(cfg) == [exists |-> TRUE, content |-> cfg]

\* SUPPORTED_NETWORKS[config.activeNetwork] || SUPPORTED_NETWORKS['mainnet']
ActiveNetwork(cfg) ==
  IF SUPPORTED_NETWORKS(cfg.activeNetwork).truthy
  THEN SUPPORTED_NETWORKS(cfg.activeNetwork)
  ELSE SUPPORTED_NETWORKS("mainnet")

\* getCurrentNetwork()
getCurrentNetwork(file) ==
  IF loadConfig(file).customRpcUrl # <<>>
  THEN [ActiveNetwork(loadConfig(file)) EXCEPT !.rpcUrl = loadConfig(file).customRpcUrl]
  ELSE ActiveNetwork(loadConfig(file))

\* setNetwork(networkName): the file after the call; raised tells whether
\* it threw
setNetwork(file, networkName) ==
  IF ~SUPPORTED_NETWORKS(networkName).truthy
  THEN [file |-> file, raised |-> TRUE, network |-> SUPPORTED_NETWORKS(networkName)]
  ELSE [file |-> saveConfig([loadConfig(file) EXCEPT !.activeNetwork = networkName]),
        raised |-> FALSE,
        network |-> SUPPORTED_NETWORKS(networkName)]

\* setCustomRpc(rpcUrl): the file after the call
setCustomRpc(file, rpcUrl) ==
  saveConfig([loadConfig(file) EXCEPT !.customRpcUrl = rpcUrl])

\* clearCustomRpc(): the file after the call
clearCustomRpc(file) ==
  saveConfig([loadConfig(file) EXCEPT !.customRpcUrl = <<>>])

\* updateLastScanBlock(chainId, blockNumber) on the file
UpdateLastScanBlockFile(file, chainId, blockNumber) ==
  saveConfig(updateLastScanBlock(loadConfig(file), chainId, blockNumber))

Letters == {"a", "b", "c", "d", "e", "f", "h", "p", "r", "s", "t"}

\* new URL(rpcUrl) does not throw: the text starts with a scheme, letters
\* followed by a colon
IsUrl(rpcUrl) ==
  \E i \in 2..Len(rpcUrl) :
    rpcUrl[i] = ":" /\ \A j \in 1..(i - 1) : rpcUrl[j] \in Letters

\* setRpcCommand(rpcUrl): connects tells whether getBlockNumber() answers
\* over the saved URL, saveAnyway is the answer to 'RPC test failed. Save
\* anyway?'.  setCustomRpc(rpcUrl) runs ahead of the test.  Returns the
\* file after the command.
setRpcCommand(file, rpcUrl, connects, saveAnyway) ==
  IF ~IsUrl(rpcUrl) THEN [file |-> file, status |-> "invalid url"]
  ELSE IF connects
  THEN [file |-> setCustomRpc(file, rpcUrl), status |-> "set"]
  ELSE IF saveAnyway
  THEN [file |-> setCustomRpc(setCustomRpc(file, rpcUrl), rpcUrl),
        status |-> "saved untested"]
  ELSE [file |-> setCustomRpc(file, rpcUrl), status |-> "test failed"]

\* clearRpcCommand()
clearRpcCommand(file) == [file |-> clearCustomRpc(file), status |-> "cleared"]

\* setNetworkCommand(networkName): the error of setNetwork is printed
setNetworkCommand(file, networkName) ==
  [file |-> setNetwork(file, networkName).file,
   status |-> IF setNetwork(file, networkName).raised THEN "failed" ELSE "switched"]

(***************************************************************************)
(* lib/network: sending.  A transaction is a record of the chain's ledger; *)
(* its hash is its position in the ledger.  STEALTH_FORWARDER[chainId] is  *)
(* written <<>> where the table has no entry.                              *)
(***************************************************************************)
ForwarderAddress == <<"0", "x", "5", "9", "4", "c">>

STEALTH_FORWARDER(chainId) == IF chainId = SEPOLIA THEN ForwarderAddress ELSE <<>>

ERC5564_ANNOUNCER == <<"0", "x", "5", "5", "6", "4">>

\* a test that takes the forwarder branch on every chain
ForwarderAvailable_Always(forwarderAddress) == TRUE

\* if (forwarderAddress)
ForwarderAvailable(forwarderAddress) == forwarderAddress # <<>>

\* getRegisteredMetaAddress(registrant): null, written <<>>, for no entry
getRegisteredMetaAddress(registry, registrant) ==
  LET result == registry[registrant]
  IN IF Len(result) <= 2 THEN <<>> ELSE result

\* walletClient.writeContract(forward) / sendTransaction / writeContract(announce)
Transaction(kind, to, value, args) ==
  [kind |-> kind, to |-> to, value |-> value, args |-> args, confirmed |-> FALSE]

\* the gas estimate of sendCommand, scaled like GAS_LIMIT
ESTIMATED_GAS == 1

(***************************************************************************)
(* contracts/StealthForwarder.sol.  The chain state the contract touches   *)
(* is the ether of every account (ether)  and the Announcement events of   *)
(* the ERC-5564 announcer (announced).  A call that reverts leaves both as *)
(* they were before the call.  accepts tells whether the code at           *)
(* stealthAddress takes the ether (an externally owned account always      *)
(* does); announceSuccess is what the call of the announcer returns.       *)
(***************************************************************************)
SCHEME_ID == 1

\* address(0)
ZERO_ADDRESS == With0x(Repeat("0", ADDRESS_HEX))

\* the length of a compressed public key, 33 bytes before scaling
EPHEMERAL_KEY_BYTES == PUBKEY_HEX \div 2

\* bytes.length of a 0x-prefixed hex string
BytesLength(hex) == (Len(hex) - 2) \div 2

\* abi.encodePacked(viewTag) of a bytes1: the one byte
encodePacked(viewTag) == With0x(Slice(SliceFrom(viewTag, 2), 0, 2))

\* the event Announcement(schemeId, stealthAddress, caller, ephemeralPubKey, metadata)
Announcement(schemeId, stealthAddress, caller, ephemeralPubKey, metadata) ==
  [stealthAddress |-> stealthAddress, metadata |-> metadata, schemeId |-> schemeId,
   caller |-> caller, ephemeralPubKey |-> ephemeralPubKey]

Reverted(error, ldg, ann) ==
  [ether |-> ldg, announced |-> ann, error |-> error, reverted |-> TRUE]

\* stealthAddress.call{value: msg.value}("")
CallValue(ldg, from, to, value) ==
  IF from = to THEN ldg
  ELSE [a \in DOMAIN ldg |->
          IF a = from THEN ldg[a] - value
          ELSE IF a = to THEN ldg[a] + value
          ELSE ldg[a]]

\* a forwarder that goes on after a failed call of the announcer
AnnounceRequired_Ignored(announceSuccess) == TRUE

\* require(announceSuccess, "Announce failed")
AnnounceRequired(announceSuccess) == announceSuccess

\* forward(stealthAddress, ephemeralPubKey, viewTag) with msg.sender and msg.value
forward(stealthAddress, ephemeralPubKey, viewTag, sender, value, accepts, announceSuccess, ldg, ann) ==
  IF ~(value > 0) THEN Reverted("No ETH sent", ldg, ann)
  ELSE IF ~(stealthAddress # ZERO_ADDRESS)
  THEN Reverted("Invalid stealth address", ldg, ann)
  ELSE IF ~(BytesLength(ephemeralPubKey) = EPHEMERAL_KEY_BYTES)
  THEN Reverted("Invalid ephemeral key length", ldg, ann)
  ELSE IF ~accepts THEN Reverted("ETH transfer failed", ldg, ann)
  ELSE IF ~AnnounceRequired(announceSuccess)
  THEN Reverted("Announce failed", ldg, ann)
  ELSE [ether |-> CallValue(ldg, sender, stealthAddress, value), announced |->
          IF announceSuccess
          THEN Append(ann, Announcement(SCHEME_ID, stealthAddress, ForwarderAddress,
                                        ephemeralPubKey, encodePacked(viewTag)))
          ELSE ann,
        error |-> "",
        reverted |-> FALSE]

(***************************************************************************)
(* commands/receive and commands/withdraw.  A command is an operator from  *)
(* its options, the answers to its prompts and the state it reads (wallet  *)
(* file, config, chain, the discoveredAddresses of its process) to what it *)
(* prints and the state it leaves.  An exception that leaves the command   *)
(* is the status "crashed".                                                *)
(***************************************************************************)
\* one pass of the scan loop of receiveCommand: isOurs and privateKey are
\* the results of checkStealthAddress and computeStealthPrivateKey for the
\* announcement, rest is the outcome of the passes after this one
ScanPass(announcement, isOurs, privateKey, rest) ==
  IF isOurs.out = "throw" \/ (isOurs.out = "true" /\ ~privateKey.ok) \/ ~rest.ok
  THEN [ok |-> FALSE, owned |-> <<>>]
  ELSE IF isOurs.out = "true"
  THEN [ok |-> TRUE,
        owned |-> <<[address |-> announcement.stealthAddress,
                     balance |-> 0,
                     announcement |-> announcement,
                     privateKey |-> privateKey.key]>> \o rest.owned]
  ELSE rest

\* the scan loop of receiveCommand over the fetched announcements
RECURSIVE ScanLoop(_, _)
ScanLoop(announcements, k) ==
  IF announcements = <<>> THEN [ok |-> TRUE, owned |-> <<>>]
  ELSE ScanPass(Head(announcements),
                checkStealthAddress(Head(announcements).ephemeralPubKey,
                                    k.spendingPublicKey, k.viewingPrivateKey,
                                    Head(announcements).stealthAddress,
                                    extractViewTag(Head(announcements).metadata)),
                computeStealthPrivateKey(Head(announcements).ephemeralPubKey,
                                         k.spendingPrivateKey, k.viewingPrivateKey),
                ScanLoop(Tail(announcements), k))

\* addresses[i].balance = await getBalance(addresses[i].address), for all i
RefreshBalances(addresses, bals) ==
  [i \in 1..Len(addresses) |->
     [addresses[i] EXCEPT !.balance = getBalance(bals, addresses[i].address)]]

\* printStealthAddresses: one row per address, numbered i + 1
printStealthAddresses(addresses) ==
  [i \in 1..Len(addresses) |->
     [address |-> addresses[i].address, balance |-> addresses[i].balance,
      index |-> i]]

\* receiveCommand(options) answered with password
\* what receiveCommand leaves: its message, the config, the block the fetch
\* started at (0 before the fetch), the addresses found and printed, and
\* the discoveredAddresses of the process
ReceiveResult(status, cfgAfter, fromBlock, found, disc) ==
  [config |-> cfgAfter, fromBlock |-> fromBlock, status |-> status,
   found |-> found, printed |-> printStealthAddresses(found), discovered |-> disc]

\* receiveCommand after the scan loop
receiveScanned(fetched, scan, bals, discovered) ==
  IF ~scan.ok
  THEN ReceiveResult("crashed", fetched.config, fetched.fromBlock, <<>>, discovered)
  ELSE IF Len(scan.owned) = 0
  THEN ReceiveResult("none found", fetched.config, fetched.fromBlock, <<>>, discovered)
  ELSE ReceiveResult("found", fetched.config, fetched.fromBlock,
                     RefreshBalances(scan.owned, bals), RefreshBalances(scan.owned, bals))

\* receiveCommand after fetchAnnouncements
receiveFetched(fetched, k, bals, discovered) ==
  IF Len(fetched.announcements) = 0
  THEN ReceiveResult("no announcements", fetched.config, fetched.fromBlock, <<>>,
                     discovered)
  ELSE receiveScanned(fetched, ScanLoop(fetched.announcements, k), bals, discovered)

\* receiveCommand after loadWallet
receiveLoaded(wallet, options, cfg, logs, currentBlock, bals, discovered) ==
  IF ~wallet.ok THEN ReceiveResult("load failed", cfg, 0, <<>>, discovered)
  ELSE receiveFetched(fetchAnnouncements(cfg, logs, currentBlock,
                        IF options.full THEN 0 ELSE options.fromBlock),
                      wallet.keys, bals, discovered)

\* receiveCommand after getWalletInfo
receiveChecked(walletInfo, options, password, file, cfg, logs, currentBlock, bals, discovered) ==
  IF ~walletInfo.ok THEN ReceiveResult("crashed", cfg, 0, <<>>, discovered)
  ELSE IF ~walletInfo.info THEN ReceiveResult("no wallet", cfg, 0, <<>>, discovered)
  ELSE receiveLoaded(loadWallet(file, password), options, cfg, logs, currentBlock,
                     bals, discovered)

receiveCommand(options, password, file, cfg, logs, currentBlock, bals, discovered) ==
  receiveChecked(getWalletInfo(file), options, password, file, cfg, logs,
                 currentBlock, bals, discovered)

\* balanceCommand()
balanceCommand(file, bals, discovered) ==
  LET walletInfo == getWalletInfo(file)
      refreshed == RefreshBalances(discovered, bals)
  IN IF ~walletInfo.ok
     THEN [status |-> "crashed", printed |-> <<>>, discovered |-> discovered]
     ELSE IF ~walletInfo.info
     THEN [status |-> "no wallet", printed |-> <<>>, discovered |-> discovered]
     ELSE IF Len(discovered) = 0
     THEN [status |-> "none discovered", printed |-> <<>>, discovered |-> discovered]
     ELSE [status |-> "listed", printed |-> printStealthAddresses(refreshed),
           discovered |-> refreshed]

\* withdrawAll: one withdrawal per address, failures are counted and skipped
RECURSIVE withdrawAll(_, _, _)
withdrawAll(addresses, destination, bals) ==
  IF addresses = <<>> THEN bals
  ELSE withdrawAll(Tail(addresses), destination,
         withdrawFromStealthAddress(bals, Head(addresses).address, destination).balances)

\* withdrawCommand(options); options.index 0 is no --index, and choice is
\* then the row picked at the prompt, one of those listed.  The funds go to
\* the wallet address, all of them, and the withdrawal is confirmed.
withdrawCommand(options, choice, file, bals, discovered) ==
  LET walletInfo == getWalletInfo(file)
      addresses == RefreshBalances(discovered, bals)
      withBalance == SelectSeq(addresses, LAMBDA a : a.balance > 0)
      toAddress == walletInfo.address
      selectedAddress == IF options.index # 0 THEN withBalance[options.index]
                         ELSE withBalance[choice + 1]
      tx == withdrawFromStealthAddress(bals, selectedAddress.address, toAddress)
      Out(status, selected, printed, balancesAfter, disc) ==
        [balances |-> balancesAfter, status |-> status, printed |-> printed,
         discovered |-> disc, selected |-> selected]
  IN IF ~walletInfo.ok THEN Out("crashed", <<>>, <<>>, bals, discovered)
     ELSE IF ~walletInfo.info THEN Out("no wallet", <<>>, <<>>, bals, discovered)
     ELSE IF Len(discovered) = 0
     THEN Out("none discovered", <<>>, <<>>, bals, discovered)
     ELSE IF Len(withBalance) = 0
     THEN Out("no balance", <<>>, <<>>, bals, addresses)
     ELSE IF options.all
     THEN Out("all", <<>>, printStealthAddresses(withBalance),
              withdrawAll(withBalance, toAddress, bals), addresses)
     ELSE IF options.index # 0 /\ (options.index < 1 \/ options.index > Len(withBalance))
     THEN Out("invalid index", <<>>, printStealthAddresses(withBalance), bals,
              addresses)
     ELSE Out(IF tx.ok THEN "withdrawn" ELSE "failed", selectedAddress.address,
              printStealthAddresses(withBalance), tx.balances, addresses)

(***************************************************************************)
(* commands/send up to the call of sendToStealthAddress.  The amount is a  *)
(* positive number of wei and the gas price is 1.  prompted holds the      *)
(* answers of the interactive prompts, which the prompt validators have    *)
(* accepted.  The status "sending" means that sendToStealthAddress is      *)
(* called with the stealth payment and the spending private key.           *)
(***************************************************************************)
\* a balance check that lets every payment through
InsufficientBalance_Never(balance, estimatedCost) == FALSE

\* balance < estimatedCost
InsufficientBalance(balance, estimatedCost) == balance < estimatedCost

sendCommand(options, prompted, password, confirm, ephPrivKey, file, registry, bals) ==
  LET walletInfo == getWalletInfo(file)
      lookup == IF options.meta # <<>> THEN FALSE
                ELSE IF options.to # <<>> THEN TRUE
                ELSE prompted.inputType = "address"
      registrant == IF options.to # <<>> THEN options.to ELSE prompted.address
      recipientMetaAddress ==
        IF options.meta # <<>> THEN options.meta
        ELSE IF lookup THEN getRegisteredMetaAddress(registry, registrant)
        ELSE prompted.meta
      parts == parseStealthMetaAddress(recipientMetaAddress)
      stealthInfo == generateStealthAddress(recipientMetaAddress, ephPrivKey)
      wallet == loadWallet(file, password)
      estimatedCost == options.amount + 1 * ESTIMATED_GAS
      Out(status, error, info, privateKey) ==
        [error |-> error, recipientMetaAddress |-> recipientMetaAddress,
         status |-> status,
         privateKey |-> privateKey, stealthInfo |-> info]
  IN IF ~walletInfo.ok THEN Out("crashed", "", NoStealth, <<>>)
     ELSE IF ~walletInfo.info THEN Out("no wallet", "", NoStealth, <<>>)
     ELSE IF lookup /\ recipientMetaAddress = <<>>
     THEN Out("not registered", "", NoStealth, <<>>)
     ELSE IF ~parts.ok THEN Out("invalid meta-address", parts.error, NoStealth, <<>>)
     ELSE IF ~isValidPublicKey(parts.spendingPublicKey)
             \/ ~isValidPublicKey(parts.viewingPublicKey)
     THEN Out("malformed keys", "", NoStealth, <<>>)
     ELSE IF ~stealthInfo.ok THEN Out("crashed", "", NoStealth, <<>>)
     ELSE IF ~wallet.ok THEN Out("load failed", wallet.error, stealthInfo, <<>>)
     ELSE IF InsufficientBalance(getBalance(bals, wallet.address), estimatedCost)
     THEN Out("insufficient balance", "", stealthInfo, <<>>)
     ELSE IF ~confirm THEN Out("cancelled", "", stealthInfo, <<>>)
     ELSE Out("sending", "", stealthInfo, wallet.keys.spendingPrivateKey)

(***************************************************************************)
(* commands/init.  backup is the file at the path of --import or of the    *)
(* backup prompt; answers holds the answers of the prompts; randomKeys,    *)
(* salt and iv are the random values drawn.  steps lists the calls that    *)
(* read or write the wallet file or make keys, in order.                   *)
(***************************************************************************)
\* a test that protects no wallet
WalletProtected_Never(exists, force) == FALSE

\* exists && !options.force
WalletProtected(exists, force) == exists /\ ~force

\* handleImport(backupPath): the error of importWallet is caught and printed
handleImport(backup, file) ==
  LET r == importWallet(backup, file)
  IN [steps |-> <<"importWallet">>,
      file |-> r.file, status |-> IF r.ok THEN "imported" ELSE "import failed"]

initCommand(options, answers, file, backup, randomKeys, salt, iv) ==
  LET exists == walletExists(file)
      info == getWalletInfo(file)
      protected == WalletProtected(exists, options.force)
      fromSignature == deriveKeysFromSignature(answers.signature)
      newKeys == IF answers.method = "random" THEN randomKeys ELSE fromSignature.keys
      checked == IF protected THEN <<"getWalletInfo">> ELSE <<>>
      made == checked \o <<IF answers.method = "random" THEN "generateRandomKeys"
                           ELSE "deriveKeysFromSignature">>
      Out(status, fileAfter, steps) ==
        [steps |-> steps, file |-> fileAfter, status |-> status]
      Import == [handleImport(backup, file) EXCEPT !.steps = checked \o @]
  IN IF protected /\ ~info.ok THEN Out("crashed", file, checked)
     ELSE IF protected /\ info.info THEN Out("exists", file, checked)
     ELSE IF options.import # <<>> THEN Import
     ELSE IF answers.method = "import" THEN Import
     ELSE IF answers.method = "signature" /\ ~fromSignature.ok
     THEN Out("crashed", file, made)
     ELSE IF answers.password # answers.confirmPassword
     THEN Out("password mismatch", file, made)
     ELSE Out("created", saveWallet(newKeys, answers.password, salt, iv),
              made \o <<"saveWallet">>)

(***************************************************************************)
(* Inputs of the stealth engine                                            *)
(***************************************************************************)
SpendingScalars == {9, 65000}

ViewingScalars == {3, 5}

\* 0 is not a valid private key
EphemeralScalars == {0, 2, 7, 11, 13}

\* generateRandomKeys, for the private keys s and v
StealthKeysOf(s, v) ==
  [spendingPublicKey |-> BytesToHex(GetPublicKey(ScalarBytes(s)).bytes),
   viewingPublicKey |-> BytesToHex(GetPublicKey(ScalarBytes(v)).bytes),
   viewingPrivateKey |-> BytesToHex(ScalarBytes(v)),
   spendingPrivateKey |-> BytesToHex(ScalarBytes(s))]

\* the key pair of another wallet
OtherKeys == StealthKeysOf(4, 6)

\* an ephemeral public key that is no point of the curve
BadPublicKey == With0x(<<"0", "2">> \o Repeat("0", FIELD_HEX))

EphemeralPublicKeys ==
  {BytesToHex(GetPublicKey(ScalarBytes(e)).bytes) : e \in EphemeralScalars \ {0}}
    \cup {BadPublicKey}

SomeViewTags == {<<"0", "x", "1", "2">>, <<"0", "x", "A", "B">>}

NoCheck == [viewTag |-> <<>>, out |-> "none", ops |-> <<>>, address |-> <<>>,
            called |-> FALSE, eph |-> <<>>]

NoKey == [ok |-> FALSE, key |-> <<>>, called |-> FALSE, eph |-> <<>>]

NoGen == [meta |-> <<>>, called |-> FALSE, res |-> NoStealth]

NoParse == [ok |-> FALSE, spendingPublicKey |-> <<>>, viewingPublicKey |-> <<>>, error |-> "",
            called |-> FALSE, input |-> <<>>]

NoLoad == [password |-> <<>>, file |-> NoWalletFile, called |-> FALSE,
           res |-> LoadFailure("none", <<>>)]

NoEncryption == [password |-> <<>>, salt |-> <<>>, iv |-> <<>>,
                 encrypted |-> SealedHex(AesGcmEncrypt(<<>>, <<>>, <<>>), "none"),
                 data |-> <<>>, called |-> FALSE]

NoDecryption == [ok |-> FALSE, error |-> "none",
                 password |-> <<>>, salt |-> <<>>, iv |-> <<>>,
                 encrypted |-> SealedHex(AesGcmEncrypt(<<>>, <<>>, <<>>), "none"), data |-> <<>>, called |-> FALSE]

NoTag == [viewTag |-> <<>>, called |-> FALSE]

NoDerivation == [signature |-> <<>>, called |-> FALSE, res |-> [keys |-> NoDerivedKeys, ok |-> FALSE, error |-> ""], flipped |-> <<>>,
                 bit |-> 0,
                 resFlipped |-> [keys |-> NoDerivedKeys, ok |-> FALSE, error |-> ""]]

MetadataIdle == mdata = <<>> /\ tag = NoTag

SignatureIdle == derived = NoDerivation

\* no process of the wallet program is running
NoProcess == [alive |-> FALSE]

\* loadConfig() without a config file
DefaultConfig == [chainId |-> MAINNET, lastScanBlock |-> [c \in ChainIds |-> 0]]

NoReceive == [options |-> [fromBlock |-> 0, full |-> FALSE], called |-> FALSE,
              res |-> [config |-> DefaultConfig, fromBlock |-> 0, status |-> "none",
                       found |-> <<>>, printed |-> <<>>, discovered |-> <<>>],
              inProcess |-> FALSE,
              before |-> DefaultConfig]

NoBalance == [called |-> FALSE,
              res |-> [status |-> "none", printed |-> <<>>, discovered |-> <<>>]]

NoWithdraw == [options |-> [index |-> 0, all |-> FALSE],
               called |-> FALSE,
               res |-> [balances |-> <<>>, status |-> "none", printed |-> <<>>,
                        discovered |-> <<>>, selected |-> <<>>]]

CommandIdle ==
  /\ proc = NoProcess
  /\ discoveredAddresses = <<>>
  /\ config = DefaultConfig
  /\ chainLogs = <<>>
  /\ chainHead = 0
  /\ balances = <<>>
  /\ rcv = NoReceive
  /\ bal = NoBalance
  /\ wd = NoWithdraw

NoSendOptions == [meta |-> <<>>, to |-> <<>>, amount |-> 0]

NoSendResult == [error |-> "", recipientMetaAddress |-> <<>>, status |-> "none",
                 privateKey |-> <<>>, stealthInfo |-> NoStealth]

NoSend == [password |-> <<>>, options |-> NoSendOptions, confirm |-> FALSE, eph |-> 0,
           res |-> NoSendResult, pc |-> "idle", sendTxHash |-> 0,
           txHash |-> 0, usedForwarder |-> FALSE]

SendIdle == snd = NoSend /\ txs = <<>>

NoInitOptions == [force |-> FALSE, import |-> <<>>]

NoInit == [options |-> NoInitOptions, called |-> FALSE, res |-> [steps |-> <<>>, file |-> NoWalletFile, status |-> "none"],
           before |-> NoWalletFile]

InitIdle == ini = NoInit

NoForward ==
  [stealthAddress |-> <<>>, viewTag |-> <<>>, value |-> 0,
   ephemeralPubKey |-> <<>>, sender |-> <<>>, called |-> FALSE, res |-> [ether |-> <<>>, announced |-> <<>>, error |-> "", reverted |-> FALSE],
   before |-> [ether |-> <<>>, announced |-> <<>>],
   count |-> 0]

ForwarderIdle == ether = <<>> /\ announced = <<>> /\ fwd = NoForward

NoConfigCommand ==
  [connects |-> FALSE, saveAnyway |-> FALSE, value |-> <<>>, called |-> FALSE,
   res |-> [file |-> NoConfigFile, status |-> "none"], before |-> NoConfigFile,
   command |-> "none"]

ConfigIdle == configFile = NoConfigFile /\ cfgCmd = NoConfigCommand

NoFetchRun ==
  [chainId |-> 0, start |-> 0, endBlock |-> 0, fromBlock |-> 0,
   fromBlockParam |-> 0, announcements |-> <<>>, full |-> FALSE, before |-> NoConfigFile,
   pc |-> "idle", ranges |-> <<>>]

NoFetchHistory == [fetched |-> [c \in ChainIds |-> {}], fromBlockRuns |-> 0]

FetchIdle == fetchRun = NoFetchRun /\ fetchHistory = NoFetchHistory

NoCall ==
  [chainId |-> 0, blockNumber |-> 0, rpcUrl |-> <<>>, networkName |-> "none", op |-> "none"]

NoWriter ==
  [config |-> FallbackConfig, pc |-> "idle", call |-> NoCall, loadedAt |-> 0, savedAt |-> 0]

MaxWriters == 2

ConfigWriters == 1..MaxWriters

WriterIdle == writers = [w \in ConfigWriters |-> NoWriter] /\ saves = 0

NoImport == [backup |-> NoWalletFile, called |-> FALSE, res |-> [ok |-> FALSE, error |-> "none", steps |-> <<>>,
                      file |-> NoWalletFile],
             before |-> NoWalletFile]

ImportIdle == imp = NoImport

RestIdle == MetadataIdle /\ SignatureIdle /\ ImportIdle /\ CommandIdle /\ SendIdle /\ InitIdle /\ ForwarderIdle /\ ConfigIdle /\ FetchIdle /\ WriterIdle

(***************************************************************************)
(* The stealth engine as a state machine: a sender generates a stealth     *)
(* address for the wallet or for another wallet, the recipient checks an   *)
(* announced (ephemeral key, address, view tag) and recovers the key.      *)
(* gen, chk and spk record the latest call of each function and its        *)
(* result; chk and spk belong to the latest generated address.             *)
(***************************************************************************)
StealthInit ==
  /\ keys \in {StealthKeysOf(s, v) : s \in SpendingScalars, v \in ViewingScalars}
  /\ gen = NoGen
  /\ chk = NoCheck
  /\ spk = NoKey
  /\ anns = <<>>
  /\ scanIdx = 0
  /\ ownedAddresses = <<>>
  /\ scanPc = "idle"
  /\ enc = NoEncryption
  /\ dec = NoDecryption
  /\ meta = <<>>
  /\ parsed = NoParse
  /\ walletFile = NoWalletFile
  /\ load = NoLoad
  /\ RestIdle

Generate(recipientMeta, e) ==
  /\ gen' = [meta |-> recipientMeta, called |-> TRUE,
             res |-> generateStealthAddress(recipientMeta, ScalarBytes(e))]
  /\ chk' = NoCheck
  /\ spk' = NoKey
  /\ UNCHANGED <<keys, scanVars, cipherVars, codecVars, walletVars, restVars>>

Check(eph, address, viewTag) ==
  /\ gen.called
  /\ LET r == checkStealthAddress(eph, keys.spendingPublicKey, keys.viewingPrivateKey,
                                  address, viewTag)
     IN chk' = [viewTag |-> viewTag, out |-> r.out, ops |-> r.ops,
                address |-> address, called |-> TRUE, eph |-> eph]
  /\ spk' = NoKey
  /\ UNCHANGED <<keys, gen, scanVars, cipherVars, codecVars, walletVars, restVars>>

Compute(eph) ==
  /\ gen.called
  /\ LET r == computeStealthPrivateKey(eph, keys.spendingPrivateKey,
                                       keys.viewingPrivateKey)
     IN spk' = [ok |-> r.ok, key |-> r.key, called |-> TRUE, eph |-> eph]
  /\ chk' = NoCheck
  /\ UNCHANGED <<keys, gen, scanVars, cipherVars, codecVars, walletVars, restVars>>

AnnouncedAddresses ==
  {gen.res.stealthAddress, ToLowerCase(gen.res.stealthAddress),
   PublicKeyToAddress(BytesToHex(PointToBytes(1, FALSE)))}

AnnouncedEphemerals == EphemeralPublicKeys \cup {gen.res.ephemeralPublicKey}

AnnouncedViewTags == SomeViewTags \cup {gen.res.viewTag}

StealthNext ==
  \/ \E e \in EphemeralScalars :
       \E m \in {createStealthMetaAddress(keys), createStealthMetaAddress(OtherKeys)} :
         Generate(m, e)
  \/ \E eph \in AnnouncedEphemerals : \E a \in AnnouncedAddresses :
       \E t \in AnnouncedViewTags : Check(eph, a, t)
  \/ \E eph \in AnnouncedEphemerals : Compute(eph)

StealthSpec == StealthInit /\ [][StealthNext]_vars

(***************************************************************************)
(* Properties of the stealth engine                                        *)
(***************************************************************************)
OwnMeta == createStealthMetaAddress(keys)

\* the latest generated address was generated for this wallet
GeneratedForUs == gen.called /\ gen.res.ok /\ gen.meta = OwnMeta

CheckedAsAnnounced ==
  /\ chk.called
  /\ chk.eph = gen.res.ephemeralPublicKey
  /\ chk.address = gen.res.stealthAddress
  /\ chk.viewTag = gen.res.viewTag

RecoveredForGenerated == spk.called /\ spk.eph = gen.res.ephemeralPublicKey

\* C2: whenever generateStealthAddress returns a result for the wallet's
\* meta-address, the address derived from the private key returned by
\* computeStealthPrivateKey equals the generated stealth address.
C2_RecoveredKeyControlsAddress ==
  (GeneratedForUs /\ RecoveredForGenerated) =>
     /\ spk.ok
     /\ privateKeyToAddress(spk.key).ok
     /\ ToLowerCase(privateKeyToAddress(spk.key).address)
          = ToLowerCase(gen.res.stealthAddress)

\* the first byte of keccak256(shared secret) for the checked ephemeral key
SharedSecretOfCheck ==
  GetSharedSecret(HexToBytes(keys.viewingPrivateKey).bytes, HexToBytes(chk.eph).bytes)

ViewTagDiffers ==
  /\ chk.called
  /\ SharedSecretOfCheck.ok
  /\ ToLowerCase(ViewTagOf(Keccak256(SharedSecretOfCheck.bytes)))
       # ToLowerCase(chk.viewTag)

C5_NeverZeroKey ==
  (spk.called /\ spk.ok) =>
     (BigIntOf(spk.key) >= 1 /\ BigIntOf(spk.key) < CURVE_ORDER)

(***************************************************************************)
(* commands/receive: the scan loop of receiveCommand over the fetched      *)
(* announcements.  scanPc is "scanning" inside the loop, "done" after it,  *)
(* and "failed" when a call inside the loop raised: the loop has no        *)
(* handler, so the exception leaves receiveCommand.                        *)
(***************************************************************************)
MaxAnnouncements == 3

\* the announcement a sender publishes for a generated stealth address
AnnouncementOf(res, extraData) ==
  [stealthAddress |-> res.stealthAddress,
   metadata |-> createAnnouncementMetadata(res.viewTag, extraData),
   ephemeralPubKey |-> res.ephemeralPublicKey]

GeneratedAnnouncements(k) ==
  LET G(q) == generateStealthAddress(createStealthMetaAddress(q[1]), ScalarBytes(q[2]))
  IN {AnnouncementOf(G(q), <<>>) : q \in {r \in {k, OtherKeys} \X {2, 7} : G(r).ok}}

\* announcements as they arrive from the chain for a wallet with keys k:
\* payments to the wallet and to another wallet, a payment to the wallet
\* announced with a lower-case address and extra metadata, one announced
\* with a wrong view tag, one with empty metadata, one whose ephemeral key
\* is no curve point, and one whose hashed shared secret is no valid scalar
AnnouncementPool(k) ==
  LET own == generateStealthAddress(createStealthMetaAddress(k), ScalarBytes(7))
      viewSk == HexToBytes(k.viewingPrivateKey).bytes
      invalidHash == {e \in EphemeralScalars \ {0} :
         ~PointFromPrivateKey(DigestBytes(Keccak256(
            GetSharedSecret(viewSk, GetPublicKey(ScalarBytes(e)).bytes).bytes))).ok}
  IN GeneratedAnnouncements(k)
       \cup {[stealthAddress |-> ToLowerCase(own.stealthAddress),
              metadata |-> createAnnouncementMetadata(own.viewTag, <<"0", "x", "e", "e">>),
              ephemeralPubKey |-> own.ephemeralPublicKey],
             [stealthAddress |-> own.stealthAddress,
              metadata |-> <<"0", "x", "5", "5">>,
              ephemeralPubKey |-> own.ephemeralPublicKey],
             [stealthAddress |-> own.stealthAddress,
              metadata |-> <<"0", "x">>,
              ephemeralPubKey |-> own.ephemeralPublicKey],
             [stealthAddress |-> own.stealthAddress,
              metadata |-> createAnnouncementMetadata(own.viewTag, <<>>),
              ephemeralPubKey |-> BadPublicKey]}
       \cup {[stealthAddress |-> own.stealthAddress,
              metadata |-> createAnnouncementMetadata(ViewTagOf(Keccak256(
                 GetSharedSecret(viewSk, GetPublicKey(ScalarBytes(e)).bytes).bytes)), <<>>),
              ephemeralPubKey |-> BytesToHex(GetPublicKey(ScalarBytes(e)).bytes)] :
             e \in invalidHash}

ScanKeys == {StealthKeysOf(9, 3), StealthKeysOf(65000, 5)}

ScanInit ==
  /\ keys \in ScanKeys
  /\ anns \in SeqsUpTo(AnnouncementPool(keys), MaxAnnouncements)
  /\ scanIdx = 0
  /\ ownedAddresses = <<>>
  /\ scanPc = "scanning"
  /\ gen = NoGen
  /\ chk = NoCheck
  /\ spk = NoKey
  /\ enc = NoEncryption
  /\ dec = NoDecryption
  /\ meta = <<>>
  /\ parsed = NoParse
  /\ walletFile = NoWalletFile
  /\ load = NoLoad
  /\ RestIdle

\* ownedAddresses.unshift(entry)
PushOwned_Front(owned, entry) == <<entry>> \o owned

\* ownedAddresses.push(entry)
PushOwned(owned, entry) == Append(owned, entry)

\* one iteration of `for (const announcement of announcements)`
ScanAnnouncement ==
  /\ scanPc = "scanning"
  /\ scanIdx < Len(anns)
  /\ LET announcement == anns[scanIdx + 1]
         viewTag == extractViewTag(announcement.metadata)
         isOurs == checkStealthAddress(announcement.ephemeralPubKey,
                     keys.spendingPublicKey, keys.viewingPrivateKey,
                     announcement.stealthAddress, viewTag)
         privateKey == computeStealthPrivateKey(announcement.ephemeralPubKey,
                     keys.spendingPrivateKey, keys.viewingPrivateKey)
     IN IF isOurs.out = "throw"
        THEN /\ scanPc' = "failed"
             /\ ownedAddresses' = <<>>
             /\ scanIdx' = scanIdx + 1
        ELSE IF isOurs.out = "true"
        THEN IF ~privateKey.ok
             THEN /\ scanPc' = "failed"
                  /\ ownedAddresses' = <<>>
                  /\ scanIdx' = scanIdx + 1
             ELSE /\ ownedAddresses' = PushOwned(ownedAddresses,
                        [address |-> announcement.stealthAddress,
                         balance |-> 0,
                         announcement |-> announcement,
                         privateKey |-> privateKey.key])
                  /\ scanIdx' = scanIdx + 1
                  /\ scanPc' = scanPc
        ELSE /\ scanIdx' = scanIdx + 1
             /\ UNCHANGED <<ownedAddresses, scanPc>>
  /\ UNCHANGED <<anns, stealthVars, cipherVars, codecVars, walletVars, restVars>>

\* the loop is over
ScanDone ==
  /\ scanPc = "scanning"
  /\ scanIdx = Len(anns)
  /\ scanPc' = "done"
  /\ UNCHANGED <<anns, scanIdx, ownedAddresses, stealthVars, cipherVars, codecVars, walletVars, restVars>>

ScanNext == ScanAnnouncement \/ ScanDone

ScanSpec == ScanInit /\ [][ScanNext]_vars

(***************************************************************************)
(* Properties of the scan                                                  *)
(***************************************************************************)
CheckOf(a) ==
  checkStealthAddress(a.ephemeralPubKey, keys.spendingPublicKey,
                      keys.viewingPrivateKey, a.stealthAddress,
                      extractViewTag(a.metadata))

IsOurs(a) == CheckOf(a).out = "true"

OwnedEntryOf(a) ==
  [address |-> a.stealthAddress,
   balance |-> 0,
   announcement |-> a,
   privateKey |-> computeStealthPrivateKey(a.ephemeralPubKey,
                    keys.spendingPrivateKey, keys.viewingPrivateKey).key]

\* the announcements of the prefix that are ours, in arrival order, each
\* with its recovered key
ExpectedOwned(n) ==
  LET ours == SelectSeq(SubSeq(anns, 1, n), IsOurs)
  IN [i \in 1..Len(ours) |-> OwnedEntryOf(ours[i])]

Malformed(a) ==
  ~isValidPublicKey(a.ephemeralPubKey) \/ a.metadata = <<"0", "x">>

ScanFound(a) ==
  \E j \in 1..Len(ownedAddresses) : ownedAddresses[j].announcement = a

\* C23: a malformed announcement does not abort the scan: it is treated as
\* not ours, and the scan of a batch that holds one still ends with every
\* well-formed owned announcement of the batch discovered.
C23_MalformedAnnouncementSkipped ==
  /\ scanPc = "failed" => ~Malformed(anns[scanIdx])
  /\ \A j \in 1..Len(ownedAddresses) : ~Malformed(ownedAddresses[j].announcement)
  /\ (scanPc = "done" /\ \E i \in 1..Len(anns) : Malformed(anns[i])) =>
       \A i \in 1..Len(anns) : (IsOurs(anns[i]) /\ ~Malformed(anns[i])) => ScanFound(anns[i])

\* what the scan does: empty metadata reads as the view tag 0x, which no
\* computed tag equals, so the announcement is not ours and the scan goes
\* on; an ephemeral key that is no curve point raises in getSharedSecret,
\* at the first call inside the loop, and the exception ends the scan with
\* nothing discovered
MalformedAnnouncementHandling ==
  /\ \A i \in 1..Len(anns) :
       /\ (isValidPublicKey(anns[i].ephemeralPubKey) /\ anns[i].metadata = <<"0", "x">>) =>
            CheckOf(anns[i]).out = "false"
       /\ ~isValidPublicKey(anns[i].ephemeralPubKey) =>
            CheckOf(anns[i]) = [out |-> "throw", ops |-> <<"getSharedSecret">>]
  /\ scanPc = "failed" => ownedAddresses = <<>>
  /\ \A i \in 1..Len(anns) :
       (scanIdx >= i /\ ~isValidPublicKey(anns[i].ephemeralPubKey)) => scanPc = "failed"

\* the scan found a payment, met an announcement with a bad ephemeral key
\* and ended without the payment it had found and without the one after
ScanAbortedByMalformed ==
  /\ scanPc = "failed"
  /\ Len(anns) = 3
  /\ scanIdx = 2
  /\ ~isValidPublicKey(anns[2].ephemeralPubKey)
  /\ IsOurs(anns[1])
  /\ IsOurs(anns[3])
  /\ ownedAddresses = <<>>

\* the scan passed an announcement with empty metadata and found the
\* payment after it
ScanPassedEmptyMetadata ==
  /\ scanPc = "done"
  /\ Len(anns) = 2
  /\ anns[1].metadata = <<"0", "x">>
  /\ ScanFound(anns[2])

(***************************************************************************)
(* The cipher as a state machine: encryptData on a message and a password  *)
(* with fresh random salt and nonce, then decryptData on what it returned  *)
(* or on altered values.                                                   *)
(***************************************************************************)
MaxMessageLen == 2

MaxPasswordLen == 2

MessageChars == {"a", "U+FEFF", "D83D", "DE00"}

PasswordChars == {"p", "U+0000"}

Messages == SeqsUpTo(MessageChars, MaxMessageLen)

Passwords == SeqsUpTo(PasswordChars, MaxPasswordLen)

\* randomBytes(n)
RandomBytes(n) == {Repeat("1", 2 * n), Repeat("b", 2 * n)}

\* the nonce is random as well; one value is modelled
RandomNonce(n) == {Repeat("7", 2 * n)}

CipherInit ==
  /\ enc = NoEncryption
  /\ dec = NoDecryption
  /\ keys = StealthKeysOf(9, 3)
  /\ gen = NoGen
  /\ chk = NoCheck
  /\ spk = NoKey
  /\ anns = <<>>
  /\ scanIdx = 0
  /\ ownedAddresses = <<>>
  /\ scanPc = "idle"
  /\ meta = <<>>
  /\ parsed = NoParse
  /\ walletFile = NoWalletFile
  /\ load = NoLoad
  /\ RestIdle

Encrypt(data, password) ==
  /\ \E salt \in RandomBytes(SALT_LENGTH) : \E iv \in RandomNonce(IV_LENGTH) :
       LET r == encryptData(data, password, salt, iv)
       IN enc' = [password |-> password, salt |-> r.salt, iv |-> r.iv,
                  encrypted |-> r.encrypted, data |-> data, called |-> TRUE]
  /\ dec' = NoDecryption
  /\ UNCHANGED <<stealthVars, scanVars, codecVars, walletVars, restVars>>

\* a hex string and what corruption makes of it: its first byte changed, or
\* a character that is no hex digit
HexVariants(hex) ==
  {hex,
   <<"0", "x", "f", "f">> \o SliceFrom(hex, 4),
   <<"0", "x", "z", "z">> \o SliceFrom(hex, 4)}

SealedVariants(e) == {SealedHex(e.sealed, m) : m \in {"intact", "flipped", "nonhex"}}

Decrypt(encryptedHex, password, saltHex, ivHex) ==
  /\ enc.called
  /\ LET r == decryptData(encryptedHex, password, saltHex, ivHex)
     IN dec' = [ok |-> r.ok, error |-> r.error, password |-> password,
                salt |-> saltHex, iv |-> ivHex,
                encrypted |-> encryptedHex, data |-> r.data, called |-> TRUE]
  /\ UNCHANGED <<enc, stealthVars, scanVars, codecVars, walletVars, restVars>>

CipherNext ==
  \/ \E data \in Messages : \E password \in Passwords :
       ~enc.called /\ Encrypt(data, password)
  \/ \E e \in SealedVariants(enc.encrypted) : \E password \in Passwords :
       \E saltHex \in HexVariants(enc.salt) : \E ivHex \in HexVariants(enc.iv) :
         ~dec.called /\ Decrypt(e, password, saltHex, ivHex)

CipherSpec == CipherInit /\ [][CipherNext]_vars

(***************************************************************************)
(* Properties of the cipher                                                *)
(***************************************************************************)
DecryptedAsEncrypted ==
  /\ dec.called
  /\ dec.encrypted = enc.encrypted
  /\ dec.salt = enc.salt
  /\ dec.iv = enc.iv

\* C7: decryptData applied to what encryptData(M, P) returned, with the
\* password P, returns exactly M.
C7_DecryptInvertsEncrypt ==
  (DecryptedAsEncrypted /\ dec.password = enc.password) =>
     (dec.ok /\ dec.data = enc.data)

BytesDiffer(hexA, hexB) ==
  \/ ~HexToBytes(hexA).ok
  \/ HexToBytes(hexA).bytes # HexToBytes(hexB).bytes

\* C8: decryptData fails whenever the password differs from the one
\* encryptData was given, or the ciphertext, the salt or the nonce differs in
\* at least one byte from what encryptData returned.
C8_WrongInputAlwaysFails ==
  (dec.called /\ (\/ dec.password # enc.password
                  \/ dec.encrypted.mark # "intact"
                  \/ BytesDiffer(dec.salt, enc.salt)
                  \/ BytesDiffer(dec.iv, enc.iv)))
    => ~dec.ok

\* C9: every failure of decryptData is reported with the same error.
C9_UniformFailure ==
  (dec.called /\ ~dec.ok) => dec.error = DecryptionFailed

(***************************************************************************)
(* The meta-address codec as a state machine: a meta-address is created    *)
(* from the key pair, and a meta-address read from the registry or the     *)
(* command line is parsed.  The key pair of a wallet has compressed public *)
(* keys; a key pair with an uncompressed spending key is modelled too.     *)
(***************************************************************************)
CodecScalars == {1, 2, 3, 9, 32760, 32761, 65000, 65520}

UncompressedKeysOf(s, v) ==
  [StealthKeysOf(s, v) EXCEPT
     !.spendingPublicKey = BytesToHex(PointToBytes(s, FALSE))]

CodecInit ==
  /\ keys \in {StealthKeysOf(s, v) : s \in CodecScalars, v \in CodecScalars}
                \cup {UncompressedKeysOf(9, 3)}
  /\ meta = <<>>
  /\ parsed = NoParse
  /\ gen = NoGen
  /\ chk = NoCheck
  /\ spk = NoKey
  /\ anns = <<>>
  /\ scanIdx = 0
  /\ ownedAddresses = <<>>
  /\ scanPc = "idle"
  /\ enc = NoEncryption
  /\ dec = NoDecryption
  /\ walletFile = NoWalletFile
  /\ load = NoLoad
  /\ RestIdle

CreateMeta ==
  /\ meta = <<>>
  /\ meta' = createStealthMetaAddress(keys)
  /\ UNCHANGED <<keys, parsed, stealthVars, scanVars, cipherVars, walletVars, restVars>>

\* the meta-addresses a caller may hand to parseStealthMetaAddress: the
\* created one, a single key, and strings of other lengths
MetaInputs ==
  {meta, keys.viewingPublicKey, Slice(meta, 0, Len(meta) - 2),
   meta \o <<"0", "0">>, <<"0", "x">>}

ParseMeta(m) ==
  /\ meta # <<>>
  /\ ~parsed.called
  /\ LET r == parseStealthMetaAddress(m)
     IN parsed' = [ok |-> r.ok, spendingPublicKey |-> r.spendingPublicKey, viewingPublicKey |-> r.viewingPublicKey,
                   error |-> r.error,
                   called |-> TRUE,
                   input |-> m]
  /\ UNCHANGED <<keys, meta, stealthVars, scanVars, cipherVars, walletVars, restVars>>

CodecNext == CreateMeta \/ \E m \in MetaInputs : ParseMeta(m)

CodecSpec == CodecInit /\ [][CodecNext]_vars

(***************************************************************************)
(* Properties of the codec                                                 *)
(***************************************************************************)
HasCompressedKeys ==
  /\ Len(keys.spendingPublicKey) = 2 + PUBKEY_HEX
  /\ Len(keys.viewingPublicKey) = 2 + PUBKEY_HEX

\* C10: for a key pair with compressed public keys, the created
\* meta-address is 0x, the spending public key, the viewing public key, two
\* keys long, and parseStealthMetaAddress of it returns exactly the two keys.
C10_MetaAddressRoundTrip ==
  (HasCompressedKeys /\ meta # <<>>) =>
     /\ meta = <<"0", "x">> \o SubSeq(keys.spendingPublicKey, 3, 2 + PUBKEY_HEX)
                \o SubSeq(keys.viewingPublicKey, 3, 2 + PUBKEY_HEX)
     /\ Len(meta) = 2 + 2 * PUBKEY_HEX
     /\ (parsed.called /\ parsed.input = meta) =>
           /\ parsed.ok
           /\ parsed.spendingPublicKey = keys.spendingPublicKey
           /\ parsed.viewingPublicKey = keys.viewingPublicKey

\* a created meta-address of two different keys was parsed back
C10_Witness ==
  /\ HasCompressedKeys
  /\ keys.spendingPublicKey # keys.viewingPublicKey
  /\ parsed.called
  /\ parsed.input = meta
  /\ parsed.ok
  /\ parsed.spendingPublicKey = keys.spendingPublicKey
  /\ parsed.viewingPublicKey = keys.viewingPublicKey

\* the number of hex characters of the parsed meta-address after its 0x
ParsedLength == Len(parsed.input) - 2

\* C11: parseStealthMetaAddress returns a meta-address of exactly one key
\* as both the spending and the viewing key, splits a meta-address of
\* exactly two keys into its first and its second key, and for every other
\* length raises 'Invalid stealth meta-address length' and returns no keys.
C11_ParseAcceptsOneOrTwoKeys ==
  parsed.called =>
     /\ ParsedLength = PUBKEY_HEX =>
           /\ parsed.ok
           /\ parsed.spendingPublicKey = parsed.input
           /\ parsed.viewingPublicKey = parsed.input
     /\ ParsedLength = META_HEX =>
           /\ parsed.ok
           /\ parsed.spendingPublicKey
                = With0x(SubSeq(parsed.input, 3, 2 + PUBKEY_HEX))
           /\ parsed.viewingPublicKey
                = With0x(SubSeq(parsed.input, 3 + PUBKEY_HEX, 2 + META_HEX))
     /\ ParsedLength \notin {PUBKEY_HEX, META_HEX} =>
           /\ ~parsed.ok
           /\ parsed.error = InvalidMetaLength
           /\ parsed.spendingPublicKey = <<>>
           /\ parsed.viewingPublicKey = <<>>

\* a meta-address one byte longer than two keys was refused
C11_Witness ==
  /\ parsed.called
  /\ ParsedLength = META_HEX + 2
  /\ ~parsed.ok
  /\ parsed.error = InvalidMetaLength

\* a meta-address of a single key was parsed into the same key twice
C11_WitnessSingleKey ==
  /\ parsed.called
  /\ ParsedLength = PUBKEY_HEX
  /\ parsed.ok
  /\ parsed.spendingPublicKey = parsed.viewingPublicKey

(***************************************************************************)
(* The wallet file as a state machine: saveWallet writes it, the file      *)
(* system may hand back a file with an altered member (bit rot, a partial  *)
(* write, an edit), deleteWallet removes it, loadWallet reads it and       *)
(* importWallet replaces it by a backup.  load and imp record the latest   *)
(* load and import of the file as it is.                                   *)
(***************************************************************************)
WalletKeys == {StealthKeysOf(9, 3), StealthKeysOf(65000, 5)}

WalletInit ==
  /\ keys \in WalletKeys
  /\ walletFile = NoWalletFile
  /\ load = NoLoad
  /\ meta = <<>>
  /\ parsed = NoParse
  /\ gen = NoGen
  /\ chk = NoCheck
  /\ spk = NoKey
  /\ anns = <<>>
  /\ scanIdx = 0
  /\ ownedAddresses = <<>>
  /\ scanPc = "idle"
  /\ enc = NoEncryption
  /\ dec = NoDecryption
  /\ RestIdle

SaveWallet(password) ==
  /\ ~walletFile.exists
  /\ \E salt \in RandomBytes(SALT_LENGTH) : \E iv \in RandomNonce(IV_LENGTH) :
       walletFile' = saveWallet(keys, password, salt, iv)
  /\ load' = NoLoad
  /\ imp' = NoImport
  /\ UNCHANGED <<keys, stealthVars, scanVars, cipherVars, codecVars,
                 metadataVars, signatureVars,
                 commandVars,
                 sendVars,
                 initVars,
                 forwarderVars,
                 configVars,
                 fetchVars,
                 writerVars>>

\* the members of the file as a damaged or edited file holds them
AlteredFiles ==
  {[walletFile EXCEPT !.version = "2"],
   [walletFile EXCEPT !.version = "\"1\""],
   [walletFile EXCEPT !.parses = FALSE],
   [walletFile EXCEPT !.stealthMetaAddress = createStealthMetaAddress(OtherKeys)],
   [walletFile EXCEPT !.stealthMetaAddress = ToUpperCase(walletFile.stealthMetaAddress)],
   [walletFile EXCEPT !.address = deriveMainAddress(OtherKeys.spendingPublicKey).address],
   [walletFile EXCEPT !.encryptedKeys = SealedHex(walletFile.encryptedKeys.sealed, "flipped")]}

AlterWalletFile ==
  /\ walletFile.exists
  /\ walletFile' \in AlteredFiles
  /\ load' = NoLoad
  /\ imp' = NoImport
  /\ UNCHANGED <<keys, stealthVars, scanVars, cipherVars, codecVars,
                 metadataVars, signatureVars,
                 commandVars,
                 sendVars,
                 initVars,
                 forwarderVars,
                 configVars,
                 fetchVars,
                 writerVars>>

DeleteWallet ==
  /\ walletFile.exists
  /\ walletFile' = NoWalletFile
  /\ load' = NoLoad
  /\ imp' = NoImport
  /\ UNCHANGED <<keys, stealthVars, scanVars, cipherVars, codecVars,
                 metadataVars, signatureVars,
                 commandVars,
                 sendVars,
                 initVars,
                 forwarderVars,
                 configVars,
                 fetchVars,
                 writerVars>>

LoadWallet(password) ==
  /\ ~load.called
  /\ load' = [password |-> password, file |-> walletFile, called |-> TRUE,
              res |-> loadWallet(walletFile, password)]
  /\ UNCHANGED <<walletFile, keys, stealthVars, scanVars, cipherVars, codecVars, restVars>>

\* the backup files a user may import: a backup of another wallet, the
\* same with another version member or without its address, a file that is
\* no JSON text, and a path that does not exist
Backups ==
  LET b == saveWallet(OtherKeys, <<"p">>, Repeat("1", 2 * SALT_LENGTH),
                      Repeat("7", 2 * IV_LENGTH))
  IN {b, [b EXCEPT !.version = "2"], [b EXCEPT !.version = "\"1\""],
      [b EXCEPT !.version = "undefined"], [b EXCEPT !.address = <<>>],
      [b EXCEPT !.parses = FALSE], NoWalletFile}

ImportWallet(backup) ==
  /\ ~imp.called
  /\ LET res == importWallet(backup, walletFile)
     IN /\ imp' = [backup |-> backup, called |-> TRUE, res |-> res,
                   before |-> walletFile]
        /\ walletFile' = res.file
  /\ load' = NoLoad
  /\ UNCHANGED <<keys, stealthVars, scanVars, cipherVars, codecVars,
                 metadataVars, signatureVars,
                 commandVars,
                 sendVars,
                 initVars,
                 forwarderVars,
                 configVars,
                 fetchVars,
                 writerVars>>

WalletNext ==
  \/ \E password \in Passwords : SaveWallet(password)
  \/ AlterWalletFile
  \/ DeleteWallet
  \/ \E password \in Passwords : LoadWallet(password)
  \/ \E backup \in Backups : ImportWallet(backup)

WalletSpec == WalletInit /\ [][WalletNext]_vars

(***************************************************************************)
(* Properties of the wallet file                                           *)
(***************************************************************************)
Performed(steps, step) == \E i \in 1..Len(steps) : steps[i] = step

\* the keys the file decrypts to under the password of the load
DecryptedForLoad ==
  decryptData(load.file.encryptedKeys, load.password, load.file.salt, load.file.iv)

\* C6: loadWallet returns keys only after it has recomputed the meta-address
\* from the decrypted keys and found it equal to the stored one; when they
\* differ it raises 'Wallet integrity check failed' and returns no keys.
C6_IntegrityCheckedBeforeKeys ==
  /\ (load.called /\ load.res.ok) =>
        /\ Performed(load.res.steps, "compare")
        /\ createStealthMetaAddress(load.res.keys) = load.file.stealthMetaAddress
  /\ (load.called /\ load.res.keys # NoKeys) => load.res.ok
  /\ (/\ load.called
      /\ load.file.exists
      /\ load.file.parses
      /\ load.file.version = "1"
      /\ DecryptedForLoad.ok
      /\ createStealthMetaAddress(JsonParse(DecryptedForLoad.data).keys)
           # load.file.stealthMetaAddress)
       => (~load.res.ok /\ load.res.error = "Wallet integrity check failed")

\* the file decrypts under the password but its stored meta-address is not
\* the one of the decrypted keys, and the load was refused
C6_Witness ==
  /\ load.called
  /\ load.file.exists
  /\ DecryptedForLoad.ok
  /\ load.file.stealthMetaAddress # createStealthMetaAddress(keys)
  /\ load.res.error = "Wallet integrity check failed"

\* a load returned the keys that saveWallet stored
C6_WitnessLoaded == load.called /\ load.res.ok /\ load.res.keys = keys

\* C14: loadWallet refuses a wallet record whose version is not the number
\* 1 with 'Unsupported wallet version' before it decrypts anything, and
\* importWallet refuses such a backup with the same error before it writes,
\* leaving the wallet file as it was.
C14_UnsupportedVersionRejected ==
  /\ (/\ load.called
      /\ load.file.exists
      /\ load.file.parses
      /\ load.file.version # "1")
       => /\ ~load.res.ok
          /\ load.res.error = UnsupportedVersion
          /\ load.res.keys = NoKeys
          /\ ~Performed(load.res.steps, "decryptData")
  /\ (/\ imp.called
      /\ imp.backup.exists
      /\ imp.backup.parses
      /\ imp.backup.version # "1")
       => /\ ~imp.res.ok
          /\ imp.res.error = UnsupportedVersion
          /\ ~Performed(imp.res.steps, "writeFile")
          /\ imp.res.file = imp.before
          /\ walletFile = imp.before

\* a backup of version 2 was refused while a wallet file of version 1 was
\* in place, and the file is still there
C14_Witness ==
  /\ imp.called
  /\ imp.backup.exists
  /\ imp.backup.version = "2"
  /\ imp.before.exists
  /\ imp.before.version = "1"
  /\ imp.res.error = UnsupportedVersion
  /\ walletFile = imp.before

\* a wallet file whose version is the string "1" was refused by loadWallet
C14_WitnessLoad ==
  /\ load.called
  /\ load.file.exists
  /\ load.file.version = "\"1\""
  /\ load.res.error = UnsupportedVersion

\* a backup was imported over an existing wallet file
ImportReplacedWallet ==
  /\ imp.called
  /\ imp.res.ok
  /\ imp.before.exists
  /\ walletFile = imp.backup
  /\ walletFile # imp.before

\* C25: the address loadWallet returns is the address derived from the
\* spending public key it returns, for every wallet file it accepts
C25_LoadedAddressIsDerived ==
  (load.called /\ load.res.ok) =>
    load.res.address = deriveMainAddress(load.res.keys.spendingPublicKey).address

\* the file is one saveWallet writes for the wallet's keys and the password
WrittenBySaveWallet(file, password) ==
  \E salt \in RandomBytes(SALT_LENGTH) : \E iv \in RandomNonce(IV_LENGTH) :
    file = saveWallet(keys, password, salt, iv)

\* loadWallet compares the meta-address only: the address it returns is the
\* address member of the file as it stands, and the file saveWallet wrote
\* holds the derived address
LoadedAddressIsFileAddress ==
  (load.called /\ load.res.ok) =>
    /\ load.res.address = load.file.address
    /\ createStealthMetaAddress(load.res.keys) = load.file.stealthMetaAddress
    /\ (WrittenBySaveWallet(load.file, load.password)
          => load.res.address = deriveMainAddress(keys.spendingPublicKey).address)

\* a wallet file whose address member was replaced was loaded
AlteredAddressAccepted ==
  /\ load.called
  /\ load.res.ok
  /\ load.res.keys = keys
  /\ load.file.address = deriveMainAddress(OtherKeys.spendingPublicKey).address
  /\ load.res.address # deriveMainAddress(keys.spendingPublicKey).address

\* the file as saveWallet wrote it was loaded
SavedAddressLoaded ==
  /\ load.called
  /\ load.res.ok
  /\ WrittenBySaveWallet(load.file, load.password)
  /\ load.res.address = deriveMainAddress(keys.spendingPublicKey).address

(***************************************************************************)
(* Announcement metadata as a state machine: the metadata of an            *)
(* announcement is created by a sender or read from the chain log, where   *)
(* it is any byte string, and the scan extracts the view tag from it.      *)
(***************************************************************************)
MaxMetadataBytes == 3

MetadataBytes == {<<"0", "0">>, <<"a", "b">>, <<"f", "f">>, <<"1", "2">>}

RECURSIVE Concat(_)
Concat(ss) == IF ss = <<>> THEN <<>> ELSE Head(ss) \o Concat(Tail(ss))

\* the metadata of the Announcement logs: byte strings, the empty one too
MetadataInputs ==
  {With0x(Concat(bs)) : bs \in SeqsUpTo(MetadataBytes, MaxMetadataBytes)}

MetadataInit ==
  /\ mdata \in MetadataInputs
  /\ tag = NoTag
  /\ keys = OtherKeys
  /\ gen = NoGen
  /\ chk = NoCheck
  /\ spk = NoKey
  /\ anns = <<>>
  /\ scanIdx = 0
  /\ ownedAddresses = <<>>
  /\ scanPc = "idle"
  /\ enc = NoEncryption
  /\ dec = NoDecryption
  /\ meta = <<>>
  /\ parsed = NoParse
  /\ walletFile = NoWalletFile
  /\ load = NoLoad
  /\ SignatureIdle
  /\ ImportIdle
  /\ CommandIdle
  /\ SendIdle
  /\ InitIdle
  /\ ForwarderIdle
  /\ ConfigIdle
  /\ FetchIdle
  /\ WriterIdle

CreateMetadata(viewTag, extraData) ==
  /\ ~tag.called
  /\ mdata = <<"0", "x">>
  /\ mdata' = createAnnouncementMetadata(viewTag, extraData)
  /\ UNCHANGED <<tag, stealthVars, scanVars, cipherVars, codecVars, walletVars,
                 signatureVars, importVars,
                 commandVars,
                 sendVars,
                 initVars,
                 forwarderVars,
                 configVars,
                 fetchVars,
                 writerVars>>

ExtractViewTag ==
  /\ ~tag.called
  /\ tag' = [viewTag |-> extractViewTag(mdata), called |-> TRUE]
  /\ UNCHANGED <<mdata, stealthVars, scanVars, cipherVars, codecVars, walletVars,
                 signatureVars, importVars,
                 commandVars,
                 sendVars,
                 initVars,
                 forwarderVars,
                 configVars,
                 fetchVars,
                 writerVars>>

MetadataNext ==
  \/ \E viewTag \in {With0x(b) : b \in MetadataBytes} :
       \E extraData \in {<<>>, <<"0", "x", "e", "e">>} :
          CreateMetadata(viewTag, extraData)
  \/ ExtractViewTag

MetadataSpec == MetadataInit /\ [][MetadataNext]_vars

(***************************************************************************)
(* Properties of the metadata                                              *)
(***************************************************************************)
\* a one-byte view tag: 0x and two hex digits
IsViewTag(t) ==
  /\ Len(t) = 4
  /\ Slice(t, 0, 2) = <<"0", "x">>
  /\ IsHexChar(t[3])
  /\ IsHexChar(t[4])

\* C12: extractViewTag returns the first byte of a metadata of at least one
\* byte, and what it returns is always a one-byte view tag; in particular
\* it returns nothing of the kind for the empty metadata 0x.
C12_ViewTagIsFirstByte ==
  tag.called =>
     /\ Len(mdata) >= 4 => tag.viewTag = With0x(SubSeq(mdata, 3, 4))
     /\ IsViewTag(tag.viewTag)

\* the part of C12 that the code keeps: the first byte of a non-empty
\* metadata
ViewTagOfNonEmptyMetadata ==
  (tag.called /\ Len(mdata) >= 4) =>
     /\ tag.viewTag = With0x(SubSeq(mdata, 3, 4))
     /\ IsViewTag(tag.viewTag)

\* extractViewTag returned for the empty metadata
EmptyMetadataExtracted ==
  tag.called /\ mdata = <<"0", "x">> /\ tag.viewTag = <<"0", "x">>

(***************************************************************************)
(* Key derivation from a signature as a state machine: a signature and the *)
(* signature that differs from it in one bit are both handed to            *)
(* deriveKeysFromSignature.                                                *)
(***************************************************************************)
SignaturePortions == {<<"0", "0", "0", "1">>, <<"1", "2", "3", "4">>,
                      <<"f", "f", "f", "e">>}

RecoveryBytes == {<<"1", "b">>, <<"1", "c">>}

\* account.signMessage: r, s and v
Signatures ==
  {With0x(r \o s \o v) : r \in SignaturePortions, s \in SignaturePortions,
                         v \in RecoveryBytes}

\* the hex digit c with its bit b (0 = lowest) inverted
FlipNibble(c, b) ==
  LET v == HexVal(c)
      w == IF (v \div (2 ^ b)) % 2 = 1 THEN v - 2 ^ b ELSE v + 2 ^ b
  IN Digits[w + 1]

\* the signature with bit number bit inverted, bit 0 being the highest bit
\* of the first byte
FlipBit(signature, bit) ==
  LET i == 3 + (bit \div 4)
  IN [signature EXCEPT ![i] = FlipNibble(signature[i], 3 - (bit % 4))]

SignatureBits == 0..(4 * SIG_HEX - 1)

SignatureInit ==
  /\ derived \in {[NoDerivation EXCEPT !.signature = sg] : sg \in Signatures}
  /\ keys = OtherKeys
  /\ gen = NoGen
  /\ chk = NoCheck
  /\ spk = NoKey
  /\ anns = <<>>
  /\ scanIdx = 0
  /\ ownedAddresses = <<>>
  /\ scanPc = "idle"
  /\ enc = NoEncryption
  /\ dec = NoDecryption
  /\ meta = <<>>
  /\ parsed = NoParse
  /\ walletFile = NoWalletFile
  /\ load = NoLoad
  /\ MetadataIdle
  /\ ImportIdle
  /\ CommandIdle
  /\ SendIdle
  /\ InitIdle
  /\ ForwarderIdle
  /\ ConfigIdle
  /\ FetchIdle
  /\ WriterIdle

DeriveFromSignatures(bit) ==
  /\ ~derived.called
  /\ LET flipped == FlipBit(derived.signature, bit)
     IN derived' = [signature |-> derived.signature, called |-> TRUE,
                    res |-> deriveKeysFromSignature(derived.signature), flipped |-> flipped,
                    bit |-> bit,
                    resFlipped |-> deriveKeysFromSignature(flipped)]
  /\ UNCHANGED <<stealthVars, scanVars, cipherVars, codecVars, walletVars,
                 metadataVars, importVars,
                 commandVars,
                 sendVars,
                 initVars,
                 forwarderVars,
                 configVars,
                 fetchVars,
                 writerVars>>

SignatureNext == \E bit \in SignatureBits : DeriveFromSignatures(bit)

SignatureSpec == SignatureInit /\ [][SignatureNext]_vars

(***************************************************************************)
(* Properties of the key derivation                                        *)
(***************************************************************************)
BothDerived == derived.called /\ derived.res.ok /\ derived.resFlipped.ok

\* C13: the key pairs derived from two signatures that differ in exactly
\* one bit, wherever the bit lies, differ in the spending private key and
\* in the viewing private key.
C13_OneBitChangesBothKeys ==
  BothDerived =>
     /\ derived.res.keys.spendingPrivateKey
          # derived.resFlipped.keys.spendingPrivateKey
     /\ derived.res.keys.viewingPrivateKey
          # derived.resFlipped.keys.viewingPrivateKey

\* what the code keeps: a bit of the first portion changes the spending key
\* and only it, a bit of the second portion changes the viewing key and
\* only it, a bit of the last byte changes neither
OneBitChangesItsPortion ==
  BothDerived =>
     LET sameSpending == derived.res.keys.spendingPrivateKey
                           = derived.resFlipped.keys.spendingPrivateKey
         sameViewing == derived.res.keys.viewingPrivateKey
                           = derived.resFlipped.keys.viewingPrivateKey
     IN /\ derived.bit < 4 * FIELD_HEX => ~sameSpending /\ sameViewing
        /\ (derived.bit >= 4 * FIELD_HEX /\ derived.bit < 8 * FIELD_HEX)
              => sameSpending /\ ~sameViewing
        /\ derived.bit >= 8 * FIELD_HEX => sameSpending /\ sameViewing

\* a bit of the recovery byte was inverted and the same keys came out
RecoveryBitIgnored ==
  /\ BothDerived
  /\ derived.bit >= 8 * FIELD_HEX
  /\ derived.res.keys = derived.resFlipped.keys

(***************************************************************************)
(* The commands as a state machine.  The wallet is initialised; the chain  *)
(* holds announcements of payments to the wallet and to another wallet,    *)
(* one per second block, and each stealth address of the wallet holds      *)
(* funds or none.  Processes of the program start and exit, one at a time: *)
(* cli.js runs the one command of its command line and exits, a session    *)
(* that imports the commands module calls several handlers.  rcv, bal and  *)
(* wd record the latest receive and the balance and the withdraw that the  *)
(* running process ran after it; rcv.inProcess tells whether the receive   *)
(* ran in the running process.  One balance and one withdraw are followed  *)
(* after each receive and in each process.  The chain is mainnet, the      *)
(* default network; its announcements lie after the deployment block.      *)
(***************************************************************************)
MaxLogs == 2

CommandKeys == StealthKeysOf(9, 3)

WalletPassword == <<"p">>

CommandWallet ==
  saveWallet(CommandKeys, WalletPassword, Repeat("1", 2 * SALT_LENGTH),
             Repeat("7", 2 * IV_LENGTH))

\* an announcement as the log of block blockNumber
LogAt(a, blockNumber) ==
  [stealthAddress |-> a.stealthAddress, metadata |-> a.metadata,
   blockNumber |-> blockNumber, ephemeralPubKey |-> a.ephemeralPubKey]

\* payments to the wallet, with two ephemeral keys, and one to another wallet
PaymentOf(k, e) ==
  AnnouncementOf(generateStealthAddress(createStealthMetaAddress(k), ScalarBytes(e)),
                 <<>>)

OwnPayments == {PaymentOf(CommandKeys, 2), PaymentOf(CommandKeys, 7)}

Payments == OwnPayments \cup {PaymentOf(OtherKeys, 2)}

\* the payments in the order of their announcements
PaymentLog ==
  <<PaymentOf(CommandKeys, 2), PaymentOf(CommandKeys, 7), PaymentOf(OtherKeys, 2)>>

\* the chains: the first n payments are announced, announcement i is the
\* log of the 2 * i-th block after the deployment of the announcer contract
Chains ==
  {[i \in 1..n |-> LogAt(PaymentLog[((i - 1) % Len(PaymentLog)) + 1],
                         START_BLOCKS(MAINNET) + 2 * i)] : n \in 0..MaxLogs}

Funds == {0, 5}

\* the funds of the stealth addresses of the wallet; the other stealth
\* address is funded, the wallet address is empty
ChainBalances ==
  {[a \in {p.stealthAddress : p \in Payments} \cup {CommandWallet.address} |->
      IF a \in DOMAIN f THEN f[a]
      ELSE IF a = CommandWallet.address THEN 0 ELSE 5] :
   f \in [{p.stealthAddress : p \in OwnPayments} -> Funds]}

CommandInit ==
  /\ keys = CommandKeys
  /\ walletFile = CommandWallet
  /\ load = NoLoad
  /\ config = DefaultConfig
  /\ chainLogs \in Chains
  /\ chainHead = START_BLOCKS(MAINNET) + 2 * MaxLogs + 1
  /\ balances \in ChainBalances
  /\ proc = NoProcess
  /\ discoveredAddresses = <<>>
  /\ rcv = NoReceive
  /\ bal = NoBalance
  /\ wd = NoWithdraw
  /\ gen = NoGen
  /\ chk = NoCheck
  /\ spk = NoKey
  /\ anns = <<>>
  /\ scanIdx = 0
  /\ ownedAddresses = <<>>
  /\ scanPc = "idle"
  /\ enc = NoEncryption
  /\ dec = NoDecryption
  /\ meta = <<>>
  /\ parsed = NoParse
  /\ MetadataIdle
  /\ SignatureIdle
  /\ ImportIdle
  /\ SendIdle
  /\ InitIdle
  /\ ForwarderIdle
  /\ ConfigIdle
  /\ FetchIdle
  /\ WriterIdle

\* node starts: the modules are loaded, `let discoveredAddresses = []`
StartProcess ==
  /\ ~proc.alive
  /\ proc' = [alive |-> TRUE]
  /\ discoveredAddresses' = <<>>
  /\ UNCHANGED <<config, chainLogs, chainHead, balances, rcv, bal, wd,
                 stealthVars, scanVars, cipherVars, codecVars, walletVars,
                 metadataVars, signatureVars, importVars,
                 sendVars,
                 initVars,
                 forwarderVars,
                 configVars,
                 fetchVars,
                 writerVars>>

\* the process exits and its memory is gone
ExitProcess ==
  /\ proc.alive
  /\ proc' = [alive |-> FALSE]
  /\ discoveredAddresses' = <<>>
  /\ rcv' = [rcv EXCEPT !.inProcess = FALSE]
  /\ bal' = NoBalance
  /\ wd' = NoWithdraw
  /\ UNCHANGED <<config, chainLogs, chainHead, balances,
                 stealthVars, scanVars, cipherVars, codecVars, walletVars,
                 metadataVars, signatureVars, importVars,
                 sendVars,
                 initVars,
                 forwarderVars,
                 configVars,
                 fetchVars,
                 writerVars>>

ReceiveCommand(options, password) ==
  /\ proc.alive
  /\ LET res == receiveCommand(options, password, walletFile, config, chainLogs,
                               chainHead, balances, discoveredAddresses)
     IN /\ rcv' = [options |-> options, called |-> TRUE, res |-> res,
                   inProcess |-> TRUE, before |-> config]
        /\ config' = res.config
        /\ discoveredAddresses' = res.discovered
  /\ bal' = NoBalance
  /\ wd' = NoWithdraw
  /\ UNCHANGED <<proc, chainLogs, chainHead, balances,
                 stealthVars, scanVars, cipherVars, codecVars, walletVars,
                 metadataVars, signatureVars, importVars,
                 sendVars,
                 initVars,
                 forwarderVars,
                 configVars,
                 fetchVars,
                 writerVars>>

BalanceCommand ==
  /\ proc.alive
  /\ ~bal.called
  /\ ~wd.called
  /\ LET res == balanceCommand(walletFile, balances, discoveredAddresses)
     IN /\ bal' = [called |-> TRUE, res |-> res]
        /\ discoveredAddresses' = res.discovered
  /\ UNCHANGED <<proc, config, chainLogs, chainHead, balances, rcv, wd,
                 stealthVars, scanVars, cipherVars, codecVars, walletVars,
                 metadataVars, signatureVars, importVars,
                 sendVars,
                 initVars,
                 forwarderVars,
                 configVars,
                 fetchVars,
                 writerVars>>

\* the rows the prompt of withdrawCommand offers
WithdrawChoices ==
  0..(Len(SelectSeq(RefreshBalances(discoveredAddresses, balances),
                    LAMBDA a : a.balance > 0)) - 1)

WithdrawCommand(options, choice) ==
  /\ proc.alive
  /\ ~wd.called
  /\ (options.index = 0 /\ ~options.all) => (choice \in WithdrawChoices \/ choice = 0)
  /\ (options.index # 0 \/ options.all) => choice = 0
  /\ options.all => options.index = 0
  /\ LET res == withdrawCommand(options, choice, walletFile, balances,
                                discoveredAddresses)
     IN /\ wd' = [options |-> options, called |-> TRUE, res |-> res]
        /\ balances' = res.balances
        /\ discoveredAddresses' = res.discovered
  /\ UNCHANGED <<proc, config, chainLogs, chainHead, rcv, bal,
                 stealthVars, scanVars, cipherVars, codecVars, walletVars,
                 metadataVars, signatureVars, importVars,
                 sendVars,
                 initVars,
                 forwarderVars,
                 configVars,
                 fetchVars,
                 writerVars>>

CommandNext ==
  \/ StartProcess
  \/ ExitProcess
  \/ \E full \in BOOLEAN : \E fromBlock \in {0, START_BLOCKS(MAINNET) + 3} :
       ReceiveCommand([fromBlock |-> fromBlock, full |-> full], WalletPassword)
  \/ ReceiveCommand(NoReceive.options, <<>>)
  \/ BalanceCommand
  \/ \E index \in 0..(MaxLogs + 1) : \E all \in BOOLEAN : \E choice \in 0..MaxLogs :
       WithdrawCommand([index |-> index, all |-> all], choice)

CommandSpec == CommandInit /\ [][CommandNext]_vars


(***************************************************************************)
(* Properties of the commands                                              *)
(***************************************************************************)
\* the latest receive fetched announcements
ReceiveFetched ==
  rcv.called /\ rcv.res.status \in {"no announcements", "none found", "found"}

\* the scan cursor the latest receive found in the config
CursorBefore == rcv.before.lastScanBlock[rcv.before.chainId]

\* C15: receive --full scans from the deployment block of the active chain,
\* whatever last-scanned block earlier receive runs have stored.
C15_FullScanFromDeployment ==
  (ReceiveFetched /\ rcv.options.full) =>
     rcv.res.fromBlock = START_BLOCKS(rcv.before.chainId)

\* what the code does: --full drops --from-block and nothing else, the scan
\* starts after the stored cursor and from the deployment block without one
FullScanFromCursor ==
  (ReceiveFetched /\ rcv.options.full) =>
     rcv.res.fromBlock = IF CursorBefore # 0 THEN CursorBefore + 1
                         ELSE START_BLOCKS(rcv.before.chainId)

\* receive --full ran with a stored cursor and started after it
FullScanSkippedBlocks ==
  /\ ReceiveFetched
  /\ rcv.options.full
  /\ CursorBefore # 0
  /\ rcv.res.fromBlock = CursorBefore + 1
  /\ rcv.res.fromBlock > START_BLOCKS(rcv.before.chainId)

AddressesOf(rows) == [i \in 1..Len(rows) |-> rows[i].address]

\* the latest receive found addresses and ran in a process that has exited
ReceivedEarlier ==
  /\ rcv.called
  /\ rcv.res.status = "found"
  /\ Len(rcv.res.found) >= 1
  /\ ~rcv.inProcess

\* C16: after a receive that reported n >= 1 addresses, a balance or a
\* withdraw run as a separate invocation works on those n addresses and
\* does not report that none were discovered.
C16_DiscoveredAddressesPersist ==
  /\ (ReceivedEarlier /\ bal.called) =>
        /\ bal.res.status = "listed"
        /\ AddressesOf(bal.res.printed) = AddressesOf(rcv.res.found)
  /\ (ReceivedEarlier /\ wd.called) =>
        wd.res.status # "none discovered"

\* what the code does: the addresses are there for a balance that runs in
\* the process of the receive, and gone in every other process
DiscoveredInProcessOnly ==
  /\ (/\ rcv.called
      /\ rcv.res.status = "found"
      /\ rcv.inProcess
      /\ bal.called) =>
        /\ bal.res.status = "listed"
        /\ AddressesOf(bal.res.printed) = AddressesOf(rcv.res.found)
  /\ (ReceivedEarlier /\ bal.called) =>
        bal.res.status = "none discovered"

\* a balance in a new process after a receive that found two addresses
BalanceAfterReceiveElsewhere ==
  /\ ReceivedEarlier
  /\ Len(rcv.res.found) = 2
  /\ bal.called
  /\ bal.res.status = "none discovered"

\* balance listed the addresses and withdraw --index ran after it in the
\* same process
WithdrawByIndexAfterBalance ==
  /\ bal.called
  /\ bal.res.status = "listed"
  /\ wd.called
  /\ ~wd.options.all
  /\ wd.options.index \in 1..Len(bal.res.printed)

\* C17: withdraw --index n withdraws from the address that balance lists
\* with index n, also when some listed addresses have a zero balance.
C17_WithdrawIndexIsBalanceIndex ==
  WithdrawByIndexAfterBalance =>
     LET row == bal.res.printed[wd.options.index]
     IN /\ wd.res.status \in {"withdrawn", "failed"} =>
              wd.res.selected = row.address
        /\ row.balance > 0 => wd.res.status \in {"withdrawn", "failed"}

\* what the code does: index n is the n-th row of the addresses that hold
\* funds
WithdrawIndexIsFundedRow ==
  WithdrawByIndexAfterBalance =>
     LET funded == SelectSeq(bal.res.printed, LAMBDA r : r.balance > 0)
     IN IF wd.options.index <= Len(funded)
        THEN /\ wd.res.status \in {"withdrawn", "failed"}
             /\ wd.res.selected = funded[wd.options.index].address
        ELSE wd.res.status \in {"invalid index", "no balance"}

\* balance listed an empty address first and a funded one second, and
\* withdraw --index 1 took the second
WithdrawTookOtherRow ==
  /\ WithdrawByIndexAfterBalance
  /\ wd.options.index = 1
  /\ bal.res.printed[1].balance = 0
  /\ wd.res.status = "withdrawn"
  /\ wd.res.selected = bal.res.printed[2].address
  /\ wd.res.selected # bal.res.printed[1].address

(***************************************************************************)
(* The send command as a state machine.  sendCommand runs up to the call   *)
(* of sendToStealthAddress in one step; sendToStealthAddress is a sequence *)
(* of awaited steps, and the chain confirms the submitted transactions in  *)
(* between.  snd.pc is the position in sendToStealthAddress.               *)
(***************************************************************************)
RecipientMeta == createStealthMetaAddress(OtherKeys)

\* the form the README documents for --meta: st:eth:0x and the two keys
DocumentedMeta == <<"s", "t", ":", "e", "t", "h", ":">> \o RecipientMeta

\* two keys of the right length of which the first is no point of the curve
MalformedMeta ==
  With0x(SliceFrom(BadPublicKey, 2) \o SliceFrom(OtherKeys.viewingPublicKey, 2))

SendMetas ==
  {<<>>, RecipientMeta, DocumentedMeta, OtherKeys.viewingPublicKey, MalformedMeta}

RegisteredAddress == deriveMainAddress(OtherKeys.spendingPublicKey).address

Registry ==
  [a \in {RegisteredAddress, CommandWallet.address} |->
     IF a = RegisteredAddress THEN RecipientMeta ELSE <<"0", "x">>]

SendRecipients == {<<>>} \cup DOMAIN Registry

SendPrompts ==
  {[meta |-> <<>>, address |-> RegisteredAddress, inputType |-> "address"],
   [meta |-> RecipientMeta, address |-> <<>>, inputType |-> "meta"]}

SendAmount == 2

SendInit ==
  /\ keys = CommandKeys
  /\ walletFile \in {CommandWallet, NoWalletFile}
  /\ load = NoLoad
  /\ config \in {[DefaultConfig EXCEPT !.chainId = c] : c \in ChainIds}
  /\ balances \in {[a \in {CommandWallet.address} |-> b] : b \in {0, 5}}
  /\ snd = NoSend
  /\ txs = <<>>
  /\ proc = NoProcess
  /\ discoveredAddresses = <<>>
  /\ chainLogs = <<>>
  /\ chainHead = 0
  /\ rcv = NoReceive
  /\ bal = NoBalance
  /\ wd = NoWithdraw
  /\ gen = NoGen
  /\ chk = NoCheck
  /\ spk = NoKey
  /\ anns = <<>>
  /\ scanIdx = 0
  /\ ownedAddresses = <<>>
  /\ scanPc = "idle"
  /\ enc = NoEncryption
  /\ dec = NoDecryption
  /\ meta = <<>>
  /\ parsed = NoParse
  /\ MetadataIdle
  /\ SignatureIdle
  /\ ImportIdle
  /\ InitIdle
  /\ ForwarderIdle
  /\ ConfigIdle
  /\ FetchIdle
  /\ WriterIdle

sendFrame ==
  <<keys, stealthVars, scanVars, cipherVars, codecVars, walletVars, metadataVars,
    signatureVars, importVars, commandVars, initVars, forwarderVars, configVars,
    fetchVars, writerVars>>

SendCommand(options, prompted, password, confirm, e) ==
  /\ snd.pc = "idle"
  /\ LET res == sendCommand(options, prompted, password, confirm, ScalarBytes(e),
                            walletFile, Registry, balances)
     IN snd' = [snd EXCEPT !.pc = IF res.status = "sending" THEN "start" ELSE "done",
                           !.options = options, !.eph = e, !.res = res,
                           !.password = password, !.confirm = confirm]
  /\ UNCHANGED <<txs, sendFrame>>

\* publicClient.simulateContract(forward) of the forwarder branch
SimulateForward(ok) ==
  /\ snd.pc = "start"
  /\ ForwarderAvailable(STEALTH_FORWARDER(config.chainId))
  /\ snd' = [snd EXCEPT !.pc = IF ok THEN "writeForward" ELSE "threw"]
  /\ UNCHANGED <<txs, sendFrame>>

\* walletClient.writeContract(request): the forwarder transaction
WriteForward ==
  /\ snd.pc = "writeForward"
  /\ txs' = Append(txs, Transaction("forward", STEALTH_FORWARDER(config.chainId),
                                    snd.options.amount,
                                    <<snd.res.stealthInfo.stealthAddress,
                                      snd.res.stealthInfo.ephemeralPublicKey,
                                      snd.res.stealthInfo.viewTag>>))
  /\ snd' = [snd EXCEPT !.pc = "waitForward", !.txHash = Len(txs) + 1]
  /\ UNCHANGED sendFrame

\* waitForTransactionReceipt({hash: txHash}); return {txHash, usedForwarder: true}
ReturnForwarded ==
  /\ snd.pc = "waitForward"
  /\ txs[snd.txHash].confirmed
  /\ snd' = [snd EXCEPT !.pc = "returned", !.usedForwarder = TRUE]
  /\ UNCHANGED <<txs, sendFrame>>

\* walletClient.sendTransaction({to: stealthAddress, value: amountWei})
SendTransaction ==
  /\ snd.pc = "start"
  /\ ~ForwarderAvailable(STEALTH_FORWARDER(config.chainId))
  /\ txs' = Append(txs, Transaction("transfer", snd.res.stealthInfo.stealthAddress,
                                    snd.options.amount, <<>>))
  /\ snd' = [snd EXCEPT !.pc = "waitTransfer", !.sendTxHash = Len(txs) + 1]
  /\ UNCHANGED sendFrame

\* waitForTransactionReceipt({hash: sendTxHash})
TransferConfirmed ==
  /\ snd.pc = "waitTransfer"
  /\ txs[snd.sendTxHash].confirmed
  /\ snd' = [snd EXCEPT !.pc = "simulateAnnounce"]
  /\ UNCHANGED <<txs, sendFrame>>

\* publicClient.simulateContract(announce)
SimulateAnnounce(ok) ==
  /\ snd.pc = "simulateAnnounce"
  /\ snd' = [snd EXCEPT !.pc = IF ok THEN "writeAnnounce" ELSE "threw"]
  /\ UNCHANGED <<txs, sendFrame>>

\* walletClient.writeContract(request): the announce transaction
WriteAnnounce ==
  /\ snd.pc = "writeAnnounce"
  /\ txs' = Append(txs, Transaction("announce", ERC5564_ANNOUNCER, 0,
                                    <<snd.res.stealthInfo.stealthAddress,
                                      snd.res.stealthInfo.ephemeralPublicKey,
                                      snd.res.stealthInfo.viewTag>>))
  /\ snd' = [snd EXCEPT !.pc = "waitAnnounce", !.txHash = Len(txs) + 1]
  /\ UNCHANGED sendFrame

\* waitForTransactionReceipt({hash: announceTxHash});
\* return {txHash: announceTxHash, usedForwarder: false}
ReturnAnnounced ==
  /\ snd.pc = "waitAnnounce"
  /\ txs[snd.txHash].confirmed
  /\ snd' = [snd EXCEPT !.pc = "returned", !.usedForwarder = FALSE]
  /\ UNCHANGED <<txs, sendFrame>>

\* the chain includes a submitted transaction in a block
ConfirmTransaction(i) ==
  /\ ~txs[i].confirmed
  /\ txs' = [txs EXCEPT ![i].confirmed = TRUE]
  /\ UNCHANGED <<snd, sendFrame>>

SendNext ==
  \/ \E m \in SendMetas : \E to \in SendRecipients : \E prompted \in SendPrompts :
     \E password \in {WalletPassword, <<"q">>} : \E confirm \in BOOLEAN :
     \E e \in {2, 7} :
       SendCommand([meta |-> m, to |-> to, amount |-> SendAmount], prompted,
                   password, confirm, e)
  \/ \E ok \in BOOLEAN : SimulateForward(ok)
  \/ WriteForward
  \/ ReturnForwarded
  \/ SendTransaction
  \/ TransferConfirmed
  \/ \E ok \in BOOLEAN : SimulateAnnounce(ok)
  \/ WriteAnnounce
  \/ ReturnAnnounced
  \/ \E i \in 1..Len(txs) : ConfirmTransaction(i)

SendSpec == SendInit /\ [][SendNext]_vars

(***************************************************************************)
(* Properties of the send command.                                         *)
(***************************************************************************)
SentDocumentedMeta ==
  snd.pc # "idle" /\ snd.options.meta = DocumentedMeta /\ walletExists(walletFile)

\* C18: `send --meta` with a meta-address of the documented form, st:eth:0x
\* followed by the two public keys, passes the validation, and the stealth
\* address is generated for the two public keys it contains.
C18_SendAcceptsDocumentedMeta ==
  SentDocumentedMeta =>
    /\ snd.res.status \notin {"invalid meta-address", "malformed keys"}
    /\ snd.res.stealthInfo = generateStealthAddress(RecipientMeta, ScalarBytes(snd.eph))

\* what sendCommand does with the documented form: parseStealthMetaAddress
\* removes two characters and refuses the length of the rest
SendRefusesDocumentedMeta ==
  SentDocumentedMeta =>
    /\ snd.res.status = "invalid meta-address"
    /\ snd.res.error = InvalidMetaLength
    /\ snd.res.stealthInfo = NoStealth
    /\ txs = <<>>

DocumentedMetaRefused ==
  SentDocumentedMeta /\ snd.res.status = "invalid meta-address"

\* the same keys written 0x... are accepted
SendAcceptsPlainMeta ==
  (snd.pc # "idle" /\ snd.options.meta = RecipientMeta /\ walletExists(walletFile)) =>
    /\ snd.res.status \in {"load failed", "insufficient balance", "cancelled", "sending"}
    /\ snd.res.stealthInfo = generateStealthAddress(RecipientMeta, ScalarBytes(snd.eph))
    /\ snd.res.stealthInfo.ok

PlainMetaSent ==
  snd.pc = "returned" /\ snd.options.meta = RecipientMeta

ForwarderConfigured == STEALTH_FORWARDER(config.chainId) # <<>>

KindsOf(ledger) == [i \in 1..Len(ledger) |-> ledger[i].kind]

\* C20: sendToStealthAddress performs one forwarder transaction, returning
\* usedForwarder = true, exactly when a forwarder is configured for the
\* active chain; otherwise it submits the transfer, waits for its receipt
\* and only then submits the announce transaction, and returns
\* usedForwarder = false with the hash of the announce transaction.
C20_ForwarderExactlyWhenConfigured ==
  /\ \A i \in 1..Len(txs) : (txs[i].kind = "forward") <=> ForwarderConfigured
  /\ \A i \in 1..Len(txs) :
       txs[i].kind = "announce" =>
         i = 2 /\ txs[1].kind = "transfer" /\ txs[1].confirmed
  /\ snd.pc = "returned" =>
       /\ snd.usedForwarder <=> ForwarderConfigured
       /\ txs[snd.txHash].confirmed
       /\ IF ForwarderConfigured
          THEN KindsOf(txs) = <<"forward">> /\ snd.txHash = 1
          ELSE KindsOf(txs) = <<"transfer", "announce">> /\ snd.txHash = 2

C20_Witness == snd.pc = "returned" /\ ~snd.usedForwarder /\ Len(txs) = 2

C20_WitnessForwarder == snd.pc = "returned" /\ snd.usedForwarder /\ Len(txs) = 1

\* the transactions carry the payment that sendCommand generated
TransactionsCarryPayment ==
  \A i \in 1..Len(txs) :
    /\ txs[i].kind = "transfer" =>
         txs[i].to = snd.res.stealthInfo.stealthAddress /\ txs[i].value = SendAmount
    /\ txs[i].kind = "forward" =>
         txs[i].to = ForwarderAddress /\ txs[i].value = SendAmount
    /\ txs[i].kind = "announce" => txs[i].to = ERC5564_ANNOUNCER /\ txs[i].value = 0

SendSubmitted == txs # <<>> \/ snd.pc \notin {"idle", "done"}

\* C22: sendCommand calls sendToStealthAddress, and so submits a
\* transaction, only in a run in which a wallet file exists, the recipient
\* meta-address parsed with two valid public keys, the wallet decrypted with
\* the entered password, the balance of the wallet's address covered the
\* amount and the estimated gas, and the user confirmed; every other run
\* ends with no transaction.
C22_SendOnlyAfterAllChecks ==
  /\ SendSubmitted =>
       /\ walletExists(walletFile)
       /\ parseStealthMetaAddress(snd.res.recipientMetaAddress).ok
       /\ isValidPublicKey(parseStealthMetaAddress(snd.res.recipientMetaAddress).spendingPublicKey)
       /\ isValidPublicKey(parseStealthMetaAddress(snd.res.recipientMetaAddress).viewingPublicKey)
       /\ loadWallet(walletFile, snd.password).ok
       /\ snd.res.privateKey = loadWallet(walletFile, snd.password).keys.spendingPrivateKey
       /\ getBalance(balances, walletFile.address) >= snd.options.amount + ESTIMATED_GAS
       /\ snd.confirm
  /\ (snd.pc # "idle" /\ snd.res.status # "sending") =>
       snd.pc = "done" /\ txs = <<>>

\* a payment went out after every check passed
C22_Witness ==
  /\ txs # <<>>
  /\ snd.res.status = "sending"
  /\ snd.confirm
  /\ snd.password = WalletPassword

\* the runs that end at each of the checks
SendStoppedAtEachCheck ==
  snd.pc = "done" /\ snd.res.status = "insufficient balance" /\ snd.confirm

SendStoppedWithoutWallet ==
  snd.pc = "done" /\ snd.res.status = "no wallet" /\ txs = <<>>

SendStoppedOnPassword ==
  snd.pc = "done" /\ snd.res.status = "load failed" /\ snd.confirm

SendStoppedOnKeys ==
  snd.pc = "done" /\ snd.res.status = "malformed keys" /\ snd.confirm

SendCancelled ==
  snd.pc = "done" /\ snd.res.status = "cancelled" /\ snd.password = WalletPassword

(***************************************************************************)
(* The init command as a state machine: the wallet file is absent, a       *)
(* wallet, or a damaged file; init runs once and the wallet can be loaded  *)
(* before and after it.                                                    *)
(***************************************************************************)
InitialWalletFiles ==
  {NoWalletFile, CommandWallet, [CommandWallet EXCEPT !.parses = FALSE],
   [CommandWallet EXCEPT !.version = "2"]}

BackupPath == <<"b">>

InitBackups ==
  LET b == saveWallet(OtherKeys, <<"q">>, Repeat("1", 2 * SALT_LENGTH),
                      Repeat("7", 2 * IV_LENGTH))
  IN {b, [b EXCEPT !.version = "2"], NoWalletFile}

InitSignatures == {With0x(r \o r \o <<"1", "b">>) : r \in SignaturePortions}
                    \cup {<<"0", "x">>}

InitAnswers ==
  [method : {"random", "signature", "import"}, signature : InitSignatures,
   password : {WalletPassword}, confirmPassword : {WalletPassword, <<"q">>}]

InitInit ==
  /\ keys = CommandKeys
  /\ walletFile \in InitialWalletFiles
  /\ load = NoLoad
  /\ ini = NoInit
  /\ gen = NoGen
  /\ chk = NoCheck
  /\ spk = NoKey
  /\ anns = <<>>
  /\ scanIdx = 0
  /\ ownedAddresses = <<>>
  /\ scanPc = "idle"
  /\ enc = NoEncryption
  /\ dec = NoDecryption
  /\ meta = <<>>
  /\ parsed = NoParse
  /\ MetadataIdle
  /\ SignatureIdle
  /\ ImportIdle
  /\ CommandIdle
  /\ SendIdle
  /\ ForwarderIdle
  /\ ConfigIdle
  /\ FetchIdle
  /\ WriterIdle

InitCommand(options, answers, backup) ==
  /\ ~ini.called
  /\ LET res == initCommand(options, answers, walletFile, backup, OtherKeys,
                            Repeat("2", 2 * SALT_LENGTH), Repeat("3", 2 * IV_LENGTH))
     IN /\ ini' = [options |-> options, called |-> TRUE, res |-> res,
                   before |-> walletFile]
        /\ walletFile' = res.file
  /\ load' = NoLoad
  /\ UNCHANGED <<keys, stealthVars, scanVars, cipherVars, codecVars, metadataVars,
                 signatureVars, importVars, commandVars, sendVars,
                 forwarderVars,
                 configVars,
                 fetchVars,
                 writerVars>>

InitNext ==
  \/ \E force \in BOOLEAN : \E import \in {<<>>, BackupPath} :
     \E answers \in InitAnswers : \E backup \in InitBackups :
       InitCommand([force |-> force, import |-> import], answers, backup)
  \/ \E password \in {WalletPassword, <<"q">>} : LoadWallet(password)

InitSpec == InitInit /\ [][InitNext]_vars

(***************************************************************************)
(* Properties of the init command.                                         *)
(***************************************************************************)
InitOnExistingWallet ==
  ini.called /\ walletExists(ini.before) /\ ~ini.options.force

\* C19: init without --force never modifies or replaces an existing wallet
\* file: it ends before it generates keys, imports a backup (also with
\* --import) or writes anything.
C19_InitKeepsExistingWallet ==
  InitOnExistingWallet =>
    /\ walletFile = ini.before
    /\ ini.res.file = ini.before
    /\ ini.res.status \in {"exists", "crashed"}
    /\ ini.res.steps = <<"getWalletInfo">>

C19_Witness ==
  /\ InitOnExistingWallet
  /\ ini.options.import = BackupPath
  /\ ini.res.status = "exists"
  /\ ini.before = CommandWallet

\* the wallet that init left alone still opens with its password
C19_WitnessLoaded ==
  InitOnExistingWallet /\ load.called /\ load.res.ok /\ load.file = CommandWallet

\* with --force, or without a wallet file, init does write
InitWrites ==
  /\ ini.called
  /\ ini.res.status \in {"created", "imported"}
  /\ walletFile # ini.before

ForcedInitReplaced ==
  InitWrites /\ ini.options.force /\ ini.before = CommandWallet

(***************************************************************************)
(* The forwarder contract as a state machine: the wallet's account calls   *)
(* forward with the stealth address, ephemeral key and view tag of a       *)
(* payment or with arguments the contract refuses; the recipient may be an *)
(* account whose code refuses ether, and the call of the announcer may run *)
(* out of gas.  fwd records the last call and the chain state before it.   *)
(***************************************************************************)
MaxForwards == 2

ForwardedPayments == {generateStealthAddress(RecipientMeta, ScalarBytes(e)) : e \in {2, 7}}

\* an account with code that refuses ether
RefusingAccount == With0x(Repeat("f", ADDRESS_HEX))

ForwardSender == CommandWallet.address

ForwardAddresses ==
  {ZERO_ADDRESS, RefusingAccount} \cup {p.stealthAddress : p \in ForwardedPayments}

\* the ephemeral key of a payment, the key without its last byte, and the
\* key with a byte appended
ForwardKeys(p) ==
  {p.ephemeralPublicKey,
   Slice(p.ephemeralPublicKey, 0, PUBKEY_HEX),
   p.ephemeralPublicKey \o <<"0", "0">>}

ForwardFunds == 3

ForwarderInit ==
  /\ ether = [a \in ForwardAddresses \cup {ForwardSender} |->
                IF a = ForwardSender THEN ForwardFunds ELSE 0]
  /\ announced = <<>>
  /\ fwd = NoForward
  /\ keys = CommandKeys
  /\ walletFile = CommandWallet
  /\ load = NoLoad
  /\ gen = NoGen
  /\ chk = NoCheck
  /\ spk = NoKey
  /\ anns = <<>>
  /\ scanIdx = 0
  /\ ownedAddresses = <<>>
  /\ scanPc = "idle"
  /\ enc = NoEncryption
  /\ dec = NoDecryption
  /\ meta = <<>>
  /\ parsed = NoParse
  /\ MetadataIdle
  /\ SignatureIdle
  /\ ImportIdle
  /\ CommandIdle
  /\ SendIdle
  /\ InitIdle
  /\ ConfigIdle
  /\ FetchIdle
  /\ WriterIdle

Forward(stealthAddress, ephemeralPubKey, viewTag, value, announceSuccess) ==
  /\ fwd.count < MaxForwards
  /\ value <= ether[ForwardSender]
  /\ LET res == forward(stealthAddress, ephemeralPubKey, viewTag, ForwardSender,
                        value, stealthAddress # RefusingAccount, announceSuccess,
                        ether, announced)
     IN /\ fwd' = [stealthAddress |-> stealthAddress, viewTag |-> viewTag,
                   value |-> value, ephemeralPubKey |-> ephemeralPubKey,
                   sender |-> ForwardSender, called |-> TRUE,
                   res |-> res,
                   before |-> [ether |-> ether, announced |-> announced],
                   count |-> fwd.count + 1]
        /\ ether' = res.ether
        /\ announced' = res.announced
  /\ UNCHANGED <<keys, stealthVars, scanVars, cipherVars, codecVars, walletVars,
                 metadataVars, signatureVars, importVars, commandVars, sendVars,
                 initVars,
                 configVars,
                 fetchVars,
                 writerVars>>

ForwarderNext ==
  \E p \in ForwardedPayments : \E a \in ForwardAddresses : \E k \in ForwardKeys(p) :
  \E value \in 0..2 : \E announceSuccess \in BOOLEAN :
    Forward(a, k, p.viewTag, value, announceSuccess)

ForwarderSpec == ForwarderInit /\ [][ForwarderNext]_vars

(***************************************************************************)
(* Properties of the forwarder contract.                                   *)
(***************************************************************************)
ForwardArgumentsValid ==
  /\ fwd.value > 0
  /\ fwd.stealthAddress # ZERO_ADDRESS
  /\ BytesLength(fwd.ephemeralPubKey) = EPHEMERAL_KEY_BYTES

\* C21: forward reverts, moving no ether and announcing nothing, unless
\* msg.value > 0, the stealth address is not zero and the ephemeral key has
\* the length of a compressed key; when it succeeds exactly msg.value went
\* from the sender to the stealth address and one announcement with scheme
\* id 1 and the view-tag byte as metadata was added; no account ever holds
\* forwarded ether without an announcement that names it.
C21_ForwardIsAtomic ==
  /\ fwd.called =>
       /\ ~ForwardArgumentsValid => fwd.res.reverted
       /\ fwd.res.reverted =>
            ether = fwd.before.ether /\ announced = fwd.before.announced
       /\ ~fwd.res.reverted =>
            /\ ether[fwd.stealthAddress] =
                 fwd.before.ether[fwd.stealthAddress] + fwd.value
            /\ ether[ForwardSender] = fwd.before.ether[ForwardSender] - fwd.value
            /\ \A a \in DOMAIN ether \ {fwd.stealthAddress, ForwardSender} :
                 ether[a] = fwd.before.ether[a]
            /\ Len(announced) = Len(fwd.before.announced) + 1
            /\ SubSeq(announced, 1, Len(fwd.before.announced)) = fwd.before.announced
            /\ announced[Len(announced)].schemeId = 1
            /\ announced[Len(announced)].stealthAddress = fwd.stealthAddress
            /\ announced[Len(announced)].ephemeralPubKey = fwd.ephemeralPubKey
            /\ announced[Len(announced)].metadata = fwd.viewTag
            /\ Len(fwd.viewTag) = 4
  /\ \A a \in DOMAIN ether \ {ForwardSender} :
       ether[a] > 0 => \E i \in 1..Len(announced) : announced[i].stealthAddress = a

\* two payments were forwarded and announced
C21_Witness ==
  /\ fwd.called
  /\ ~fwd.res.reverted
  /\ Len(announced) = 2
  /\ fwd.value = 2

\* a call of the announcer that failed took the transfer back
ForwardRevertedOnAnnounce ==
  /\ fwd.called
  /\ fwd.res.error = "Announce failed"
  /\ ether = fwd.before.ether
  /\ Len(announced) = 1

\* a recipient that refuses the ether
ForwardRevertedOnTransfer ==
  fwd.called /\ fwd.res.error = "ETH transfer failed" /\ fwd.stealthAddress = RefusingAccount

(***************************************************************************)
(* The config commands as a state machine: config.json is absent or was    *)
(* written by earlier commands; `config network <name>`, `config rpc       *)
(* <url>` and `config rpc-clear` run one after the other.  cfgCmd records  *)
(* the last command, its arguments and the file before it.                 *)
(***************************************************************************)
OldRpcUrl == <<"h", ":", "a">>

NewRpcUrl == <<"h", ":", "b">>

\* cursors of earlier receive runs on two of the chains
ScannedBlocks == [c \in ChainIds |-> IF c = HOLESKY THEN 0 ELSE START_BLOCKS(c) + 2]

ConfigFiles ==
  {NoConfigFile} \cup
  {saveConfig([lastScanBlock |-> b, activeNetwork |-> n, customRpcUrl |-> u]) :
     n \in {"mainnet", "sepolia"}, u \in {<<>>, OldRpcUrl},
     b \in {FallbackConfig.lastScanBlock, ScannedBlocks}}

\* the names given to `config network`: networks of the table, names the
\* table inherits, and a name that is nowhere
NetworkArguments == NetworkNames \cup InheritedNames \cup {"goerli"}

RpcArguments == {NewRpcUrl, <<"r", "p", "c">>}

ConfigInit ==
  /\ configFile \in ConfigFiles
  /\ cfgCmd = NoConfigCommand
  /\ keys = CommandKeys
  /\ walletFile = CommandWallet
  /\ load = NoLoad
  /\ gen = NoGen
  /\ chk = NoCheck
  /\ spk = NoKey
  /\ anns = <<>>
  /\ scanIdx = 0
  /\ ownedAddresses = <<>>
  /\ scanPc = "idle"
  /\ enc = NoEncryption
  /\ dec = NoDecryption
  /\ meta = <<>>
  /\ parsed = NoParse
  /\ MetadataIdle
  /\ SignatureIdle
  /\ ImportIdle
  /\ CommandIdle
  /\ SendIdle
  /\ InitIdle
  /\ ForwarderIdle
  /\ FetchIdle
  /\ WriterIdle

configFrame ==
  <<keys, stealthVars, scanVars, cipherVars, codecVars, walletVars, metadataVars,
    signatureVars, importVars, commandVars, sendVars, initVars, forwarderVars,
    fetchVars, writerVars>>

ConfigCommandDone(command, value, connects, saveAnyway, res) ==
  /\ cfgCmd' = [connects |-> connects, saveAnyway |-> saveAnyway, value |-> value,
                called |-> TRUE, res |-> res,
                before |-> configFile, command |-> command]
  /\ configFile' = res.file
  /\ UNCHANGED configFrame

\* config network <name>
SetNetworkCommand(networkName) ==
  ConfigCommandDone("network", networkName, FALSE, FALSE,
                    setNetworkCommand(configFile, networkName))

\* config rpc <url>
SetRpcCommand(rpcUrl, connects, saveAnyway) ==
  ConfigCommandDone("rpc", rpcUrl, connects, saveAnyway,
                    setRpcCommand(configFile, rpcUrl, connects, saveAnyway))

\* config rpc-clear
ClearRpcCommand ==
  ConfigCommandDone("rpc-clear", <<>>, FALSE, FALSE, clearRpcCommand(configFile))

ConfigNext ==
  \/ \E networkName \in NetworkArguments : SetNetworkCommand(networkName)
  \/ \E rpcUrl \in RpcArguments : \E connects \in BOOLEAN : \E saveAnyway \in BOOLEAN :
       SetRpcCommand(rpcUrl, connects, saveAnyway)
  \/ ClearRpcCommand

ConfigSpec == ConfigInit /\ [][ConfigNext]_vars

(***************************************************************************)
(* Properties of the config commands.                                      *)
(***************************************************************************)
RpcTestFailedAndDeclined ==
  /\ cfgCmd.command = "rpc"
  /\ IsUrl(cfgCmd.value)
  /\ ~cfgCmd.connects
  /\ ~cfgCmd.saveAnyway

\* C26: `config rpc <url>` whose connection test fails and whose 'Save
\* anyway?' is answered no leaves the stored config as it was before the
\* command.
C26_DeclinedRpcNotPersisted ==
  RpcTestFailedAndDeclined => loadConfig(configFile) = loadConfig(cfgCmd.before)

\* what the command does: it stores every well-formed URL before it tests
\* the connection, and neither the failed test nor the answer takes it back;
\* a text that is no URL is not stored
RpcStoredBeforeTest ==
  cfgCmd.command = "rpc" =>
    IF IsUrl(cfgCmd.value)
    THEN /\ configFile.exists
         /\ loadConfig(configFile) =
              [loadConfig(cfgCmd.before) EXCEPT !.customRpcUrl = cfgCmd.value]
    ELSE configFile = cfgCmd.before

\* the URL that failed its test and was declined replaced a working one
DeclinedRpcPersisted ==
  /\ RpcTestFailedAndDeclined
  /\ cfgCmd.res.status = "test failed"
  /\ loadConfig(cfgCmd.before).customRpcUrl = OldRpcUrl
  /\ loadConfig(configFile).customRpcUrl = NewRpcUrl
  /\ getCurrentNetwork(configFile).rpcUrl = NewRpcUrl

\* C29: setNetwork with a name that is not in SUPPORTED_NETWORKS raises and
\* leaves the stored config unchanged; with a supported name it changes only
\* activeNetwork, keeps customRpcUrl and every lastScanBlock, and
\* getCurrentNetwork then reports the chain id of that network.
C29_SetNetworkFrame ==
  cfgCmd.command = "network" =>
    IF cfgCmd.value \in NetworkNames
    THEN /\ cfgCmd.res.status = "switched"
         /\ loadConfig(configFile) =
              [loadConfig(cfgCmd.before) EXCEPT !.activeNetwork = cfgCmd.value]
         /\ getCurrentNetwork(configFile).chainId = ChainIdOf(cfgCmd.value)
    ELSE /\ cfgCmd.res.status = "failed"
         /\ configFile = cfgCmd.before

\* what setNetwork does: the claim's behaviour for the networks of the
\* table and for names that are no member of the object at all; a name the
\* object inherits is stored as the active network, which then has no chain
\* id
SetNetworkLookup ==
  cfgCmd.command = "network" =>
    IF cfgCmd.value \in NetworkNames
    THEN /\ cfgCmd.res.status = "switched"
         /\ loadConfig(configFile) =
              [loadConfig(cfgCmd.before) EXCEPT !.activeNetwork = cfgCmd.value]
         /\ getCurrentNetwork(configFile).chainId = ChainIdOf(cfgCmd.value)
    ELSE IF cfgCmd.value \in InheritedNames
    THEN /\ cfgCmd.res.status = "switched"
         /\ loadConfig(configFile).activeNetwork = cfgCmd.value
         /\ getCurrentNetwork(configFile).chainId = 0
    ELSE /\ cfgCmd.res.status = "failed"
         /\ configFile = cfgCmd.before

InheritedNameStored ==
  /\ cfgCmd.command = "network"
  /\ cfgCmd.value = "constructor"
  /\ loadConfig(cfgCmd.before).activeNetwork = "sepolia"
  /\ loadConfig(configFile).activeNetwork = "constructor"

\* a switch between networks of the table kept the URL and the cursors
NetworkSwitched ==
  /\ cfgCmd.command = "network"
  /\ cfgCmd.value = "holesky"
  /\ loadConfig(configFile).customRpcUrl = OldRpcUrl
  /\ loadConfig(configFile).lastScanBlock = ScannedBlocks

UnknownNetworkRefused ==
  cfgCmd.command = "network" /\ cfgCmd.value = "goerli" /\ cfgCmd.res.status = "failed"

(***************************************************************************)
(* fetchAnnouncements as a state machine.  A receive run reaches           *)
(* fetchAnnouncements with its options, which reads the network, the       *)
(* cursor and the current block, queries the logs chunk by chunk (a query  *)
(* may fail, which ends the run) and writes the cursor after the loop.     *)
(* Blocks are mined meanwhile; every second block holds an announcement.   *)
(* Between runs the user may switch the network.  fetchHistory keeps the   *)
(* blocks that completed runs have fetched on each chain and the number of *)
(* runs that were given --from-block.  All chains share the block height.  *)
(***************************************************************************)
MaxHead == 9

FirstHead == 4

\* the --from-block value of the runs that give one
FromBlockOption == 7

FetchNetworks == {"mainnet", "holesky"}

\* the logs of the announcer in block b
BlockLogs(b) ==
  IF b % 2 = 0 THEN <<LogAt(PaymentLog[(b % Len(PaymentLog)) + 1], b)>> ELSE <<>>

RECURSIVE LogsUpTo(_)
LogsUpTo(h) == IF h = 0 THEN <<>> ELSE LogsUpTo(h - 1) \o BlockLogs(h)

FetchInit ==
  /\ configFile \in {NoConfigFile, saveConfig([FallbackConfig EXCEPT !.customRpcUrl = OldRpcUrl])}
  /\ cfgCmd = NoConfigCommand
  /\ fetchRun = NoFetchRun
  /\ fetchHistory = NoFetchHistory
  /\ chainHead \in {START_BLOCKS(MAINNET) - 1, FirstHead}
  /\ chainLogs = LogsUpTo(chainHead)
  /\ proc = NoProcess
  /\ discoveredAddresses = <<>>
  /\ config = DefaultConfig
  /\ balances = <<>>
  /\ rcv = NoReceive
  /\ bal = NoBalance
  /\ wd = NoWithdraw
  /\ keys = CommandKeys
  /\ walletFile = CommandWallet
  /\ load = NoLoad
  /\ gen = NoGen
  /\ chk = NoCheck
  /\ spk = NoKey
  /\ anns = <<>>
  /\ scanIdx = 0
  /\ ownedAddresses = <<>>
  /\ scanPc = "idle"
  /\ enc = NoEncryption
  /\ dec = NoDecryption
  /\ meta = <<>>
  /\ parsed = NoParse
  /\ MetadataIdle
  /\ SignatureIdle
  /\ ImportIdle
  /\ SendIdle
  /\ InitIdle
  /\ ForwarderIdle
  /\ WriterIdle

fetchFrame ==
  <<keys, stealthVars, scanVars, cipherVars, codecVars, walletVars, metadataVars,
    signatureVars, importVars, sendVars, initVars, forwarderVars,
    proc, discoveredAddresses, config, balances, rcv, bal, wd, cfgCmd, writerVars>>

\* receiveCommand calls fetchAnnouncements({fromBlock: options.full ?
\* undefined : fromBlock}); fetchAnnouncements up to the chunk loop
StartFetch(options) ==
  /\ fetchRun.pc \in {"idle", "returned", "failed"}
  /\ LET chainId == getCurrentNetwork(configFile).chainId
         fromBlockParam == IF options.full THEN 0 ELSE options.fromBlock
         fromBlock == FirstBlock(fromBlockParam,
                                 getLastScanBlock(loadConfig(configFile), chainId), chainId)
     IN fetchRun' = [chainId |-> chainId, start |-> fromBlock,
                     endBlock |-> chainHead, fromBlock |-> fromBlock,
                     fromBlockParam |-> fromBlockParam, announcements |-> <<>>,
                     full |-> options.full, before |-> configFile, pc |-> "loop",
                     ranges |-> <<>>]
  /\ UNCHANGED <<configFile, fetchHistory, chainHead, chainLogs, fetchFrame>>

\* one pass of the chunk loop: client.getLogs answers or throws
QueryChunk(ok) ==
  /\ fetchRun.pc = "loop"
  /\ fetchRun.start <= fetchRun.endBlock
  /\ fetchRun' =
       IF ok
       THEN [fetchRun EXCEPT
               !.ranges = Append(@, <<fetchRun.start,
                                      ChunkEnd(fetchRun.start, fetchRun.endBlock)>>),
               !.announcements =
                 @ \o GetLogs(chainLogs, fetchRun.start,
                              ChunkEnd(fetchRun.start, fetchRun.endBlock)),
               !.start = @ + CHUNK_SIZE]
       ELSE [fetchRun EXCEPT !.pc = "failed"]
  /\ UNCHANGED <<configFile, fetchHistory, chainHead, chainLogs, fetchFrame>>

\* the blocks of a sequence of ranges
BlocksOf(ranges) == UNION {ranges[i][1]..ranges[i][2] : i \in 1..Len(ranges)}

\* after the loop: the cursor is updated and the announcements returned
FinishFetch ==
  /\ fetchRun.pc = "loop"
  /\ fetchRun.start > fetchRun.endBlock
  /\ configFile' =
       IF CursorAdvances(fetchRun.endBlock, fetchRun.fromBlock)
       THEN UpdateLastScanBlockFile(configFile, fetchRun.chainId, fetchRun.endBlock)
       ELSE configFile
  /\ fetchRun' = [fetchRun EXCEPT !.pc = "returned"]
  /\ fetchHistory' =
       [fetched |-> [fetchHistory.fetched EXCEPT
                       ![fetchRun.chainId] = @ \cup BlocksOf(fetchRun.ranges)],
        fromBlockRuns |-> IF fetchRun.fromBlockParam # 0 THEN 1
                          ELSE fetchHistory.fromBlockRuns]
  /\ UNCHANGED <<chainHead, chainLogs, fetchFrame>>

\* the chain grows by a block
MineBlock ==
  /\ chainHead < MaxHead
  /\ chainHead' = chainHead + 1
  /\ chainLogs' = chainLogs \o BlockLogs(chainHead + 1)
  /\ UNCHANGED <<configFile, fetchRun, fetchHistory, fetchFrame>>

\* config network <name> between two runs
SwitchNetwork(networkName) ==
  /\ fetchRun.pc \in {"returned", "failed"}
  /\ loadConfig(configFile).activeNetwork # networkName
  /\ configFile' = setNetwork(configFile, networkName).file
  /\ fetchRun' = NoFetchRun
  /\ UNCHANGED <<fetchHistory, chainHead, chainLogs, fetchFrame>>

FetchNext ==
  \/ \E full \in BOOLEAN : \E fromBlock \in {0, FromBlockOption} :
       StartFetch([fromBlock |-> fromBlock, full |-> full])
  \/ \E ok \in BOOLEAN : QueryChunk(ok)
  \/ FinishFetch
  \/ MineBlock
  \/ \E networkName \in FetchNetworks : SwitchNetwork(networkName)

FetchSpec == FetchInit /\ [][FetchNext]_vars

(***************************************************************************)
(* Properties of fetchAnnouncements.                                       *)
(***************************************************************************)
\* C24: after any sequence of receive runs, every block from the deployment
\* block of a chain up to its stored lastScanBlock has been fetched by some
\* run.
C24_CursorCoversFetched ==
  \A c \in ChainIds :
    \A b \in START_BLOCKS(c)..getLastScanBlock(loadConfig(configFile), c) :
      b \in fetchHistory.fetched[c]

\* what the runs do: as long as no run was given --from-block the cursor
\* covers only fetched blocks, with and without --full; a run with
\* --from-block fetches from that block on and then stores the end block
\* as the cursor whatever lies between the old cursor and its first block
CursorCoversWithoutFromBlock ==
  fetchHistory.fromBlockRuns = 0 => C24_CursorCoversFetched

\* a run with --from-block moved the cursor of the chain past blocks that
\* no run has fetched
CursorPassedUnfetched ==
  /\ fetchRun.pc = "returned"
  /\ fetchRun.fromBlockParam = FromBlockOption
  /\ fetchRun.chainId = MAINNET
  /\ getLastScanBlock(loadConfig(configFile), MAINNET) = MaxHead
  /\ fetchHistory.fetched[MAINNET] = FromBlockOption..MaxHead

RangesOf(run) == run.ranges

\* C27: the chunk queries partition [fromBlock, endBlock] in ascending
\* order: the first starts at fromBlock, each next one starts a block after
\* the one before ends, the last ends at endBlock, none spans more than
\* CHUNK_SIZE blocks, and the announcements are those of the ranges in
\* that order; with fromBlock > endBlock nothing is queried and the result
\* is empty.
C27_ChunksPartitionRange ==
  LET r == RangesOf(fetchRun)
      n == Len(r)
  IN /\ \A i \in 1..n :
          /\ r[i][1] <= r[i][2]
          /\ r[i][2] - r[i][1] + 1 <= CHUNK_SIZE
          /\ r[i][1] = IF i = 1 THEN fetchRun.fromBlock ELSE r[i - 1][2] + 1
          /\ r[i][2] <= fetchRun.endBlock
     /\ fetchRun.pc = "loop" /\ n > 0 => fetchRun.start = r[n][2] + 1 \/ r[n][2] = fetchRun.endBlock
     /\ fetchRun.announcements =
          GetLogs(chainLogs, fetchRun.fromBlock, IF n = 0 THEN 0 ELSE r[n][2])
     /\ \A i \in 1..(Len(fetchRun.announcements) - 1) :
          fetchRun.announcements[i].blockNumber < fetchRun.announcements[i + 1].blockNumber
     /\ fetchRun.pc = "returned" =>
          IF fetchRun.fromBlock > fetchRun.endBlock
          THEN n = 0 /\ fetchRun.announcements = <<>>
          ELSE /\ n > 0
               /\ r[n][2] = fetchRun.endBlock
               /\ BlocksOf(r) = fetchRun.fromBlock..fetchRun.endBlock

\* a run returned the announcements of three chunks
C27_Witness ==
  /\ fetchRun.pc = "returned"
  /\ Len(fetchRun.ranges) = 3
  /\ fetchRun.ranges[3][2] - fetchRun.ranges[3][1] + 1 < CHUNK_SIZE
  /\ Len(fetchRun.announcements) >= 3

\* a run that had nothing to fetch
EmptyFetch ==
  /\ fetchRun.pc = "returned"
  /\ fetchRun.fromBlock > fetchRun.endBlock
  /\ fetchRun.ranges = <<>>

\* C28: the cursor is written only after every chunk query of the run has
\* succeeded: in the loop and after a failed query the stored config is the
\* one the run started with; a run that returns has set lastScanBlock of
\* the active chain to its end block when the end block is above the start
\* block, and has changed nothing else.
C28_CursorWrittenOnceAfterChunks ==
  /\ fetchRun.pc \in {"loop", "failed"} => configFile = fetchRun.before
  /\ fetchRun.pc = "returned" =>
       IF fetchRun.endBlock > fetchRun.fromBlock
       THEN /\ loadConfig(configFile) =
                 [loadConfig(fetchRun.before) EXCEPT
                    !.lastScanBlock[fetchRun.chainId] = fetchRun.endBlock]
            /\ fetchRun.chainId = getCurrentNetwork(fetchRun.before).chainId
       ELSE configFile = fetchRun.before

\* a run on the second chain moved its cursor and kept the cursor of the
\* first chain and the custom RPC URL
C28_Witness ==
  /\ fetchRun.pc = "returned"
  /\ fetchRun.chainId = HOLESKY
  /\ Len(fetchRun.ranges) >= 2
  /\ getLastScanBlock(loadConfig(configFile), HOLESKY) = fetchRun.endBlock
  /\ getLastScanBlock(loadConfig(configFile), MAINNET) > 0
  /\ getLastScanBlock(loadConfig(configFile), MAINNET) < fetchRun.endBlock
  /\ loadConfig(configFile).customRpcUrl = OldRpcUrl
  /\ loadConfig(configFile).activeNetwork = "holesky"

\* a run whose second query failed left the cursor where it was
FetchFailedPartWay ==
  /\ fetchRun.pc = "failed"
  /\ Len(fetchRun.ranges) = 1
  /\ getLastScanBlock(loadConfig(configFile), fetchRun.chainId) > 0
  /\ configFile = fetchRun.before

\* a run over exactly one new block fetched it and left the cursor
SingleBlockFetch ==
  /\ fetchRun.pc = "returned"
  /\ fetchRun.fromBlock = fetchRun.endBlock
  /\ Len(fetchRun.ranges) = 1
  /\ configFile = fetchRun.before

(***************************************************************************)
(* The writers of config.json as a state machine.  updateLastScanBlock,    *)
(* setNetwork, setCustomRpc and clearCustomRpc each read the file          *)
(* (await loadConfig()), change one member of the object they read and     *)
(* write the object back (await saveConfig(config)).  Nothing locks the    *)
(* file, so the reads and writes of two invocations of the program happen  *)
(* in any order.  A writer records the config it read, and how many writes *)
(* of the file had happened when it read (loadedAt) and when it had        *)
(* written (savedAt).                                                      *)
(***************************************************************************)
WriterCalls ==
  {[NoCall EXCEPT !.op = "updateLastScanBlock", !.chainId = c,
                  !.blockNumber = START_BLOCKS(c) + 4] : c \in {MAINNET, SEPOLIA}}
  \cup {[NoCall EXCEPT !.op = "setNetwork", !.networkName = n] :
          n \in {"sepolia", "holesky", "goerli"}}
  \cup {[NoCall EXCEPT !.op = "setCustomRpc", !.rpcUrl = NewRpcUrl],
        [NoCall EXCEPT !.op = "clearCustomRpc"]}

\* setNetwork throws ahead of loadConfig for a name the table does not have
CallRaises(call) == call.op = "setNetwork" /\ ~SUPPORTED_NETWORKS(call.networkName).truthy

\* the file a call writes, from the config it read
WriteOf(call, cfg) ==
  CASE call.op = "updateLastScanBlock" ->
         UpdateLastScanBlockFile(saveConfig(cfg), call.chainId, call.blockNumber)
    [] call.op = "setNetwork" -> setNetwork(saveConfig(cfg), call.networkName).file
    [] call.op = "setCustomRpc" -> setCustomRpc(saveConfig(cfg), call.rpcUrl)
    [] call.op = "clearCustomRpc" -> clearCustomRpc(saveConfig(cfg))

WriterInit ==
  /\ configFile \in ConfigFiles
  /\ cfgCmd = NoConfigCommand
  /\ writers = [w \in ConfigWriters |-> NoWriter]
  /\ saves = 0
  /\ keys = CommandKeys
  /\ walletFile = CommandWallet
  /\ load = NoLoad
  /\ gen = NoGen
  /\ chk = NoCheck
  /\ spk = NoKey
  /\ anns = <<>>
  /\ scanIdx = 0
  /\ ownedAddresses = <<>>
  /\ scanPc = "idle"
  /\ enc = NoEncryption
  /\ dec = NoDecryption
  /\ meta = <<>>
  /\ parsed = NoParse
  /\ MetadataIdle
  /\ SignatureIdle
  /\ ImportIdle
  /\ CommandIdle
  /\ SendIdle
  /\ InitIdle
  /\ ForwarderIdle
  /\ FetchIdle

writerFrame ==
  <<keys, stealthVars, scanVars, cipherVars, codecVars, walletVars, metadataVars,
    signatureVars, importVars, commandVars, sendVars, initVars, forwarderVars,
    fetchVars>>

\* const config = await loadConfig()
WriterLoad(w, call) ==
  /\ writers[w].pc = "idle"
  /\ writers' = [writers EXCEPT ![w] =
                   IF CallRaises(call)
                   THEN [@ EXCEPT !.pc = "raised", !.call = call]
                   ELSE [@ EXCEPT !.pc = "loaded", !.call = call,
                                  !.config = loadConfig(configFile),
                                  !.loadedAt = saves]]
  /\ UNCHANGED <<configFile, saves, cfgCmd, writerFrame>>

\* config.<member> = ...; await saveConfig(config)
WriterSave(w) ==
  /\ writers[w].pc = "loaded"
  /\ configFile' = WriteOf(writers[w].call, writers[w].config)
  /\ saves' = saves + 1
  /\ writers' = [writers EXCEPT ![w] = [@ EXCEPT !.pc = "done", !.savedAt = saves + 1]]
  /\ UNCHANGED <<cfgCmd, writerFrame>>

WriterNext ==
  \/ \E w \in ConfigWriters : \E call \in WriterCalls : WriterLoad(w, call)
  \/ \E w \in ConfigWriters : WriterSave(w)

WriterSpec == WriterInit /\ [][WriterNext]_vars

(***************************************************************************)
(* Properties of the writers of config.json.                               *)
(***************************************************************************)
\* the member of the config a call assigns
AssignedMember(call) ==
  CASE call.op = "updateLastScanBlock" -> <<"lastScanBlock", call.chainId>>
    [] call.op = "setNetwork" -> <<"activeNetwork", 0>>
    [] call.op \in {"setCustomRpc", "clearCustomRpc"} -> <<"customRpcUrl", 0>>

\* the stored config holds what the call assigned
EffectIn(call, cfg) ==
  CASE call.op = "updateLastScanBlock" -> cfg.lastScanBlock[call.chainId] = call.blockNumber
    [] call.op = "setNetwork" -> cfg.activeNetwork = call.networkName
    [] call.op = "setCustomRpc" -> cfg.customRpcUrl = call.rpcUrl
    [] call.op = "clearCustomRpc" -> cfg.customRpcUrl = <<>>

\* every writer has written, and no two of them assigned the same member
AllWritten ==
  /\ \A w \in ConfigWriters : writers[w].pc = "done"
  /\ \A v, w \in ConfigWriters :
       v # w => AssignedMember(writers[v].call) # AssignedMember(writers[w].call)

\* v had written before w read
Before(v, w) == writers[v].savedAt <= writers[w].loadedAt

\* C30: when the writers of config.json have all written, the stored config
\* holds the update of each of them, in whatever order their reads and
\* writes happened
C30_NoLostConfigUpdate ==
  AllWritten => \A w \in ConfigWriters : EffectIn(writers[w].call, configFile.content)

\* writers that ran one after the other leave every update in the file; in
\* every run the file is what the last writer made of the config it read
WritersInTurnKeepUpdates ==
  /\ (AllWritten /\ \A v, w \in ConfigWriters : v # w => (Before(v, w) \/ Before(w, v)))
       => \A w \in ConfigWriters : EffectIn(writers[w].call, configFile.content)
  /\ \A w \in ConfigWriters :
       (writers[w].pc = "done" /\ writers[w].savedAt = saves)
         => configFile = WriteOf(writers[w].call, writers[w].config)

\* updateLastScanBlock read the file before setNetwork wrote it and wrote
\* after: the switch of the network is gone
ConfigUpdateLost ==
  /\ AllWritten
  /\ \E v, w \in ConfigWriters :
       /\ writers[v].call.op = "updateLastScanBlock"
       /\ writers[w].call.op = "setNetwork"
       /\ writers[v].loadedAt < writers[w].savedAt
       /\ writers[w].savedAt < writers[v].savedAt
       /\ ~EffectIn(writers[w].call, configFile.content)
       /\ EffectIn(writers[v].call, configFile.content)

\* two writers ran one after the other and both updates are stored
WritersRanInTurn ==
  /\ AllWritten
  /\ \E v, w \in ConfigWriters : v # w /\ Before(v, w)
  /\ \A w \in ConfigWriters : EffectIn(writers[w].call, configFile.content)

====
